---- MODULE Spec2Model ----
(***************************************************************************)
(* Model of domain-checker: the bounded-concurrency orchestrator           *)
(* (Processor.ProcessAll), the per-domain check (Processor.ProcessDomain,  *)
(* handleAvailable, handleExpiry) and the per-domain state files           *)
(* (loadState / saveState), over repeated invocations of the program;      *)
(* cleanupState, run from init() before main; and the WHOIS retry loop     *)
(* (QueryWithRetries, GetExpirationDate), attempt by attempt.              *)
(*                                                                         *)
(* Time is counted in half days (12h), so that a difference that is not a  *)
(* whole number of days exists.  The zero time.Time is 0.                  *)
(***************************************************************************)
EXTENDS Integers, Sequences, FiniteSets, TLC

\* ------------------------------------------------------------------ bounds
\* number of program invocations over the same state directory
MaxRuns == 2
\* the clock stops advancing after Epoch + MaxTicks half days
MaxTicks == 2
\* largest configured concurrency limit explored
MaxConcurrency == 2
\* largest configured number of WHOIS attempts explored
MaxRetries == 3

\* ------------------------------------------------------- program constants
\* default threshold_days
ThresholdDays == 7
\* half days per day (the model's time unit is 12h)
HalfDaysPerDay == 2
\* the clock's first value; the zero time.Time is 0 and lies before it
Epoch == 3
\* default retries
DefaultRetries == 3
\* default backoff, in milliseconds
DefaultBackoff == 2000

\* a byte has ByteRange values; the DNS header has HeaderLen bytes; SOA is
\* record type TypeSOA
ByteRange == 256
HeaderLen == 12
TypeSOA   == 6

\* ------------------------------------------------------------ domain names
\* A domain entry is a sequence of characters, as configured.
DomA    == <<"a", ".", "c">>
DomB    == <<"b", ".", "c">>
PaddedA == <<" ", "a", ".", "c">>
Spaces  == <<" ">>
Empty   == <<>>

\* The configured lists explored over repeated invocations: one domain, and
\* an empty entry before a domain.
RunLists ==
  { <<DomA>>,
    <<Empty, DomB>> }

\* The configured lists explored within one invocation: a whitespace-only
\* entry between two domains, and three entries two of which name the same domain
\* (once padded with a space).
PoolLists ==
  { <<DomA, Spaces, DomB>>,
    <<DomA, DomB, PaddedA>> }

DomainLists == RunLists \cup PoolLists

\* one task slot per entry of the longest list
MaxEntries == CHOOSE n \in 0..8 :
  /\ \A l \in DomainLists : Len(l) <= n
  /\ \E l \in DomainLists : Len(l) = n
TaskIds == 1..MaxEntries

IsSpace(ch) == ch \in {" ", "\t", "\n", "\r"}

RECURSIVE TrimLeft(_)
TrimLeft(s) ==
  IF s # <<>> /\ IsSpace(Head(s)) THEN TrimLeft(Tail(s)) ELSE s

RECURSIVE TrimRight(_)
TrimRight(s) ==
  IF s # <<>> /\ IsSpace(s[Len(s)]) THEN TrimRight(SubSeq(s, 1, Len(s) - 1)) ELSE s

\* strings.TrimSpace
TrimSpace(s) == TrimRight(TrimLeft(s))

\* strings.ReplaceAll for one-character old/new
ReplaceAll(s, old, new) ==
  [i \in 1..Len(s) |-> IF s[i] = old THEN new ELSE s[i]]

JsonExt == <<".", "j", "s", "o", "n">>

\* stateFilePath: the file name inside the state directory
stateFilePath(domain) == ReplaceAll(domain, ".", "_") \o JsonExt

\* the trimmed, non-blank names that occur in some list
Names ==
  UNION { { TrimSpace(l[i]) : i \in 1..Len(l) } : l \in DomainLists } \ {<<>>}

Paths == { stateFilePath(d) : d \in Names }

\* strings.HasSuffix and strings.TrimSuffix
HasSuffix(s, suffix) ==
  /\ Len(s) >= Len(suffix)
  /\ SubSeq(s, Len(s) - Len(suffix) + 1, Len(s)) = suffix

TrimSuffix(s, suffix) ==
  IF HasSuffix(s, suffix) THEN SubSeq(s, 1, Len(s) - Len(suffix)) ELSE s

\* Other files the state directory may hold: the state file of a domain
\* that is in no list, a file of that name without the extension .json,
\* and a file named just ".json".
DomO     == <<"o", ".", "c">>
StaleJson == stateFilePath(DomO)
StaleTxt  == <<"o", "_", "c", ".", "t", "x", "t">>
DotJson   == JsonExt

\* os.ReadDir returns the entries sorted by filename
DirOrder ==
  << DotJson, stateFilePath(DomA), stateFilePath(DomB), StaleJson, StaleTxt >>

DirNames == { DirOrder[i] : i \in 1..Len(DirOrder) }

\* ------------------------------------------------------------- DomainState
ZeroState ==
  [Expiration |-> 0, NotifiedExpiry |-> FALSE, NotifiedAvailable |-> FALSE]

\* A state file: absent, a JSON object with the three DomainState fields, or
\* a file cut short by a write that failed after the truncating open.
NoFile ==
  [kind |-> "absent", expiration |-> 0,
   notified_expiry |-> FALSE, notified_available |-> FALSE]

Truncated ==
  [kind |-> "truncated", expiration |-> 0,
   notified_expiry |-> FALSE, notified_available |-> FALSE]

\* a JSON object with none of DomainState's fields, such as {"name": "x"}
OtherObject ==
  [kind |-> "object", expiration |-> 0,
   notified_expiry |-> FALSE, notified_available |-> FALSE]

\* a file that is not JSON
PlainText ==
  [kind |-> "text", expiration |-> 0,
   notified_expiry |-> FALSE, notified_available |-> FALSE]

\* a JSON object whose expiration and notified_available fields are as
\* DomainState has them and whose notified_expiry is a string, such as
\* {"expiration": "...", "notified_expiry": "yes", "notified_available": true}
Mistyped ==
  [kind |-> "mistyped",
   expiration |-> Epoch + (ThresholdDays + 1) * HalfDaysPerDay,
   notified_expiry |-> FALSE, notified_available |-> TRUE]

\* faulty variant: NotifiedAvailable is not written (json:"-")
MarshalOmitsAvailable(st) ==
  [kind |-> "json", expiration |-> st.Expiration,
   notified_expiry |-> st.NotifiedExpiry,
   notified_available |-> FALSE]

\* json.MarshalIndent of a DomainState
Marshal(st) ==
  [kind |-> "json", expiration |-> st.Expiration,
   notified_expiry |-> st.NotifiedExpiry,
   notified_available |-> st.NotifiedAvailable]

\* json.Unmarshal into a zero DomainState: a syntax error leaves it zero; a
\* field of the wrong type is skipped and the other fields are decoded
Unmarshal(content) ==
  IF content.kind \in {"json", "mistyped"}
  THEN [Expiration |-> content.expiration,
        NotifiedExpiry |-> content.notified_expiry,
        NotifiedAvailable |-> content.notified_available]
  ELSE ZeroState

\* whether json.Unmarshal into a DomainState returns an error: unknown
\* fields are ignored and missing fields stay zero, so any JSON object whose
\* fields (if present) have the right types is accepted
UnmarshalFails(content) == content.kind \notin {"json", "object"}

\* isAppGeneratedFile: the file can be read and Unmarshal returns no error
isAppGeneratedFile(dir, path, readOk) ==
  /\ readOk
  /\ dir[path].kind # "absent"
  /\ ~UnmarshalFails(dir[path])

\* os.ReadDir(cfg.StateDir): the names of the files that exist, sorted
ReadDir(dir) == SelectSeq(DirOrder, LAMBDA p : dir[p].kind # "absent")

\* cleanupState's keep map: the key of every entry of cfg.Domains
keep(doms) ==
  { ReplaceAll(TrimSpace(doms[i]), ".", "_") : i \in 1..Len(doms) }

\* loadState: a missing or unreadable file gives the zero state
loadState(dir, domain, readOk) ==
  LET content == dir[stateFilePath(domain)]
  IN  IF content.kind = "absent" \/ ~readOk
      THEN ZeroState
      ELSE Unmarshal(content)

WriteOutcomes == {"ok", "open_failed", "write_failed"}

\* saveState: os.WriteFile opens with O_TRUNC; a failed open leaves the file
\* as it was, a failed write leaves it cut short
saveState(dir, domain, st, outcome) ==
  [dir EXCEPT ![stateFilePath(domain)] =
     CASE outcome = "ok"           -> Marshal(st)
       [] outcome = "open_failed"  -> @
       [] outcome = "write_failed" -> Truncated]

\* integer division rounding toward zero, as Go's int(float64)
TruncDiv(a, b) == IF a >= 0 THEN a \div b ELSE -((-a) \div b)

\* the largest Duration (1<<63 - 1 nanoseconds, a little under 106752
\* days), in whole half days
MaxDuration == 213503

\* time.Until(expDate) at time t: Time.Sub saturates at the largest and the
\* smallest Duration
Until(expDate, t) ==
  IF expDate - t > MaxDuration THEN MaxDuration
  ELSE IF expDate - t < -MaxDuration THEN -MaxDuration
  ELSE expDate - t

\* daysLeft := int(time.Until(expDate).Hours() / 24)
DaysLeft(expDate, t) == TruncDiv(Until(expDate, t), HalfDaysPerDay)

\* faulty variant: Before instead of After
hasValidExpirationBefore(st, t) == st.Expiration # 0 /\ st.Expiration < t

\* hasValidExpiration := !Expiration.IsZero() && Expiration.After(time.Now())
hasValidExpiration(st, t) == st.Expiration # 0 /\ st.Expiration > t

\* faulty variant: the entry is compared without trimming
IsBlankEntryUntrimmed(d) == d = <<>>

\* the entry is skipped when it is empty after strings.TrimSpace
IsBlankEntry(d) == TrimSpace(d) = <<>>

\* faulty variant: the send never blocks
CanAcquireUnbounded(used, limit) == TRUE

\* sem <- struct{}{} proceeds while the channel buffer has room
CanAcquire(used, limit) == used < limit

\* faulty variant: Wait returns at once
WaitGroupIgnored(counter) == TRUE

\* wg.Wait() returns when the counter is zero
WaitGroupDone(counter) == counter = 0

\* faulty variant: the flag is not consulted
AlwaysNotifyAvailable(st) == TRUE

\* handleAvailable's condition
ShouldNotifyAvailable(st) == ~st.NotifiedAvailable

\* faulty variant: strictly inside the threshold only
ShouldNotifyExpiryStrict(daysLeft, threshold, st) ==
  daysLeft < threshold /\ ~st.NotifiedExpiry

\* handleExpiry's condition
ShouldNotifyExpiry(daysLeft, threshold, st) ==
  daysLeft <= threshold /\ ~st.NotifiedExpiry

\* what the WHOIS registry may report, relative to the time of the lookup:
\* already expired, expiring within the threshold, on the threshold's last
\* half day, and beyond the threshold
WhoisOffsets ==
  { -1, 1, ThresholdDays * HalfDaysPerDay + 1, (ThresholdDays + 1) * HalfDaysPerDay }

DnsResults == {"available", "registered", "error"}

\* ------------------------------------------------------------------- state
VARIABLES
  domains,      \* cfg.Domains
  concurrency,  \* cfg.Concurrency
  now,          \* the wall clock, in half days
  run,          \* which invocation of the program this is
  files,        \* the state directory: path -> content
  mainPc,       \* where ProcessAll is
  idx,          \* ProcessAll's loop index
  sem,          \* number of elements in the semaphore channel
  wg,           \* the WaitGroup counter
  tasks,        \* one goroutine per entry
  sent,         \* Notifier.Send calls so far, per domain and kind
  expirySent,   \* <<domain, expiration>> of every expiry warning sent
  writeFailed,  \* whether some state write has failed so far
  retries,      \* cfg.Retries
  backoff,      \* cfg.Backoff, in milliseconds
  lastProbe,    \* per domain, the last two error-free DNS answers
  dirEntries,   \* cleanupState: the directory entries it has yet to visit
  dirBefore,    \* the directory as cleanupState found it, until main starts
  whoisCall,    \* GetExpirationDate: the call in progress
  dnsCall,      \* dns.Checker.IsAvailable: the call in progress
  parseCall,    \* whois.ParseExpiration: the call in progress
  storeCall,    \* a Save of the state store followed by a Load
  boot,         \* init() and main() up to ProcessAll: the startup in progress
  cfgCall,      \* config: New, LoadFromFile, LoadFromEnv in progress
  sendCall,     \* Notifier.Send: the call in progress
  daysCall,     \* handleExpiry's daysLeft computation on its own
  keyCall       \* stateFilePath applied to a pair of names

\* the calls of the packages taken on their own
moreCalls == << boot, cfgCall, sendCall, daysCall, keyCall >>
callParts == << dnsCall, parseCall, storeCall, moreCalls >>

\* what the orchestrator's and ProcessDomain's steps leave alone: the retry
\* configuration, the probe history, cleanup's listing and the WHOIS call
otherParts ==
  << retries, backoff, lastProbe, dirEntries, dirBefore, whoisCall,
     callParts >>

vars ==
  << domains, concurrency, now, run, files, mainPc, idx, sem, wg, tasks,
     sent, expirySent, writeFailed, otherParts >>

\* A goroutine that does not exist (yet).  Besides the code's own locals
\* (dom, st) a task records what it has done: the state it loaded, the DNS
\* answer, whether it made a WHOIS lookup, and its Save and Send calls.
IdleTask ==
  [pc |-> "idle", dom |-> <<>>, st |-> ZeroState, loaded |-> ZeroState,
   calls |-> 0, dns |-> "none", whois |-> FALSE, whoisErr |-> "none",
   saves |-> 0,
   sendsAvailable |-> 0, sendsExpiry |-> 0]

\* pcs at which the goroutine holds a semaphore slot
HoldingPcs ==
  { "spawned", "dns", "handleAvailable", "saveAvailable", "checkExpiration",
    "whois", "saveExpiration", "handleExpiry", "saveExpiry", "release" }

\* pcs inside ProcessDomain
InProcessDomain == HoldingPcs \ {"spawned", "release"}

\* No GetExpirationDate call is in progress.  Besides the loop's i and
\* backoff and the results raw and err, a call records the outcome of every
\* transport call and the length of every sleep, in order.
IdleCall ==
  [pc |-> "idle", i |-> 0, backoff |-> 0, outcomes |-> <<>>, slept |-> <<>>,
   raw |-> "none", err |-> "none"]

\* the retry configuration's defaults; no probe seen, no cleanup and no
\* WHOIS call in progress
\* no call of a package on its own is in progress
NoDnsCall ==
  [pc |-> "idle", domain |-> <<>>, typ |-> 0, query |-> <<>>,
   response |-> <<>>, available |-> FALSE, err |-> "none"]
NoParseCall ==
  [pc |-> "idle", raw |-> <<>>, by |-> "none",
   t |-> [err |-> FALSE, sec |-> 0, nsec |-> 0]]
NoStoreCall ==
  [pc |-> "idle", dom |-> <<>>, st |-> ZeroState, outcome |-> "none",
   readOk |-> FALSE, out |-> ZeroState]

\* no startup is modelled: init() and main() have got as far as ProcessAll
NoBoot == [pc |-> "idle", file |-> "unset", mkdirOk |-> TRUE, exit |-> "none"]
\* the Config fields followed here, as a zero Config value has them
ZeroConfig == [Concurrency |-> 0, StateDir |-> <<>>, Backoff |-> 0]

\* a configuration file: its kind, and per field whether the JSON object
\* sets it ("ok"), sets it to a value of the wrong type ("mistyped") or
\* leaves it out ("absent"), with the value it gives
NoConfigFile ==
  [kind |-> "unset",
   concurrency |-> [set |-> "absent", val |-> 0],
   state_dir |-> [set |-> "absent", val |-> <<>>],
   backoff |-> [set |-> "absent", val |-> 0]]

\* the environment: os.Getenv gives "" for a variable that is not set
NoEnv == [CONCURRENCY |-> <<>>, STATE_DIR |-> <<>>, BACKOFF |-> <<>>]

\* no configuration is being loaded
NoCfgCall ==
  [pc |-> "idle", file |-> NoConfigFile, env |-> NoEnv, cfg |-> ZeroConfig,
   err |-> FALSE]
\* no Send is in progress; host, from and to say whether cfg.SMTPHost,
\* cfg.EmailFrom and cfg.EmailTo are set (by default none is)
NoSendCall ==
  [pc |-> "idle", host |-> FALSE, from |-> FALSE, to |-> FALSE,
   task |-> 0, kind |-> "none", outcome |-> "none", delivered |-> 0]
\* no daysLeft computation on its own is in progress
NoDaysCall == [pc |-> "idle", expDate |-> 0, t |-> 0, daysLeft |-> 0]
\* no pair of names is being mapped to state files
NoKeyCall ==
  [pc |-> "idle", a |-> <<>>, b |-> <<>>, pathA |-> <<>>, pathB |-> <<>>,
   keptByB |-> FALSE]

NoMoreCalls ==
  /\ cfgCall = NoCfgCall
  /\ sendCall = NoSendCall
  /\ daysCall = NoDaysCall
  /\ keyCall = NoKeyCall

NoCalls ==
  /\ dnsCall = NoDnsCall
  /\ parseCall = NoParseCall
  /\ storeCall = NoStoreCall
  /\ boot = NoBoot
  /\ NoMoreCalls

InitParts ==
  /\ retries = DefaultRetries
  /\ backoff = DefaultBackoff
  /\ lastProbe = [d \in Names |-> [prev |-> "none", cur |-> "none"]]
  /\ whoisCall = IdleCall
  /\ NoCalls

\* an empty state directory
EmptyDir == [p \in DirNames |-> NoFile]

\* init() has read the configuration and, on a state directory without
\* files, cleanupState has nothing to visit
InitOver(lists, limits) ==
  /\ InitParts
  /\ dirEntries = <<>>
  /\ dirBefore = EmptyDir
  /\ domains \in lists
  /\ concurrency \in limits
  /\ now = Epoch
  /\ run = 1
  /\ files = EmptyDir
  /\ mainPc = "init"
  /\ idx = 1
  /\ sem = 0
  /\ wg = 0
  /\ tasks = [t \in TaskIds |-> IdleTask]
  /\ sent = [d \in Names |-> [available |-> 0, expiry |-> 0]]
  /\ expirySent = {}
  /\ writeFailed = FALSE

\* the same with a concurrency limit of at least one
InitWith(lists) == InitOver(lists, 1..MaxConcurrency)

Init == InitWith(RunLists)

\* the configured backoff: one millisecond, and the default
Backoffs == {1, DefaultBackoff}

\* as Init, with the retry configuration drawn from small sets
InitWhois ==
  /\ retries \in 0..MaxRetries
  /\ backoff \in Backoffs
  /\ lastProbe = [d \in Names |-> [prev |-> "none", cur |-> "none"]]
  /\ whoisCall = IdleCall
  /\ NoCalls
  /\ dirEntries = <<>>
  /\ dirBefore = EmptyDir
  /\ domains \in RunLists
  /\ concurrency = 1
  /\ now = Epoch
  /\ run = 1
  /\ files = EmptyDir
  /\ mainPc = "init"
  /\ idx = 1
  /\ sem = 0
  /\ wg = 0
  /\ tasks = [t \in TaskIds |-> IdleTask]
  /\ sent = [d \in Names |-> [available |-> 0, expiry |-> 0]]
  /\ expirySent = {}
  /\ writeFailed = FALSE

\* a state file as an earlier invocation may have left it
SavedState ==
  Marshal([Expiration |-> Epoch + (ThresholdDays + 1) * HalfDaysPerDay,
           NotifiedExpiry |-> FALSE, NotifiedAvailable |-> TRUE])

\* a state file from an earlier invocation: the domain expires in a day and
\* no warning has been sent
DueState ==
  Marshal([Expiration |-> Epoch + HalfDaysPerDay,
           NotifiedExpiry |-> FALSE, NotifiedAvailable |-> FALSE])

\* what each file of the state directory may hold when the program starts
ContentsOf(p) ==
  CASE p = StaleJson -> {NoFile, SavedState, OtherObject, Truncated, PlainText}
    [] p = StaleTxt  -> {NoFile, SavedState}
    [] p = DotJson   -> {NoFile, SavedState}
    [] OTHER         -> {NoFile, SavedState, OtherObject, Mistyped, DueState}

Directories ==
  { d \in [DirNames -> {NoFile, SavedState, OtherObject, Truncated, PlainText,
                        Mistyped, DueState}] :
      \A p \in DirNames : d[p] \in ContentsOf(p) }

\* init() has read the configuration and cleanupState has listed a state
\* directory that holds files, or failed to list it
InitCleanup ==
  /\ InitParts
  /\ domains \in RunLists
  /\ concurrency = 1
  /\ now = Epoch
  /\ run = 1
  /\ files \in Directories
  /\ dirBefore = files
  /\ dirEntries \in {ReadDir(files), <<>>}
  /\ mainPc = "init"
  /\ idx = 1
  /\ sem = 0
  /\ wg = 0
  /\ tasks = [t \in TaskIds |-> IdleTask]
  /\ sent = [d \in Names |-> [available |-> 0, expiry |-> 0]]
  /\ expirySent = {}
  /\ writeFailed = FALSE

InitPool == InitWith(PoolLists)

\* ------------------------------------------------------------- cleanupState
\* faulty variant: cleanupState is started in the background
CleanupDetached(rest) == TRUE

\* init() returns when cleanupState has gone through the whole listing
CleanupFinished(rest) == rest = <<>>

\* one iteration of cleanupState's loop over the directory listing
CleanupEntry ==
  /\ dirEntries # <<>>
  /\ LET f == Head(dirEntries)
     IN  \E readOk \in BOOLEAN, removeOk \in BOOLEAN :
           files' = IF /\ HasSuffix(f, JsonExt)
                       /\ TrimSuffix(f, JsonExt) \notin keep(domains)
                       /\ isAppGeneratedFile(files, f, readOk)
                       /\ removeOk
                    THEN [files EXCEPT ![f] = NoFile]
                    ELSE files
  /\ dirEntries' = Tail(dirEntries)
  /\ UNCHANGED << domains, concurrency, now, run, mainPc, idx, sem, wg, tasks,
                  sent, expirySent, writeFailed, retries, backoff, lastProbe,
                  dirBefore, whoisCall, callParts >>

\* init() has returned; main() calls ProcessAll
StartMain ==
  /\ mainPc = "init"
  /\ CleanupFinished(dirEntries)
  /\ mainPc' = "loop"
  /\ dirBefore' = EmptyDir
  /\ UNCHANGED << domains, concurrency, now, run, files, idx, sem, wg, tasks,
                  sent, expirySent, writeFailed, retries, backoff, lastProbe,
                  dirEntries, whoisCall, callParts >>

\* --------------------------------------------------------------- ProcessAll
\* for _, d := range Domains { domain := TrimSpace(d); if domain == "" { continue }
SkipBlank ==
  /\ mainPc = "loop"
  /\ idx <= Len(domains)
  /\ IsBlankEntry(domains[idx])
  /\ idx' = idx + 1
  /\ UNCHANGED << domains, concurrency, now, run, files, mainPc, sem, wg,
                  tasks, sent, expirySent, writeFailed, otherParts >>

\* wg.Add(1)
AddTask ==
  /\ mainPc = "loop"
  /\ idx <= Len(domains)
  /\ ~IsBlankEntry(domains[idx])
  /\ wg' = wg + 1
  /\ mainPc' = "acquire"
  /\ UNCHANGED << domains, concurrency, now, run, files, idx, sem, tasks,
                  sent, expirySent, writeFailed, otherParts >>

\* sem <- struct{}{}; go func(dom string) {...}(domain)
Acquire ==
  /\ mainPc = "acquire"
  /\ CanAcquire(sem, concurrency)
  /\ sem' = sem + 1
  /\ tasks' = [tasks EXCEPT ![idx] =
                 [IdleTask EXCEPT !.pc = "spawned",
                                  !.dom = TrimSpace(domains[idx])]]
  /\ idx' = idx + 1
  /\ mainPc' = "loop"
  /\ UNCHANGED << domains, concurrency, now, run, files, wg, sent,
                  expirySent, writeFailed, otherParts >>

\* the loop ends; wg.Wait() begins
LoopExit ==
  /\ mainPc = "loop"
  /\ idx > Len(domains)
  /\ mainPc' = "wait"
  /\ UNCHANGED << domains, concurrency, now, run, files, idx, sem, wg, tasks,
                  sent, expirySent, writeFailed, otherParts >>

\* wg.Wait() returns and so does ProcessAll
WaitReturn ==
  /\ mainPc = "wait"
  /\ WaitGroupDone(wg)
  /\ mainPc' = "returned"
  /\ UNCHANGED << domains, concurrency, now, run, files, idx, sem, wg, tasks,
                  sent, expirySent, writeFailed, otherParts >>

\* ------------------------------------------------------------ ProcessDomain
OtherVars == << domains, concurrency, now, run, mainPc, idx >>

\* the goroutine starts: ProcessDomain(dom) is called and loads the state
Load(t) ==
  /\ tasks[t].pc = "spawned"
  /\ \E readOk \in BOOLEAN :
       LET st == loadState(files, tasks[t].dom, readOk)
       IN  tasks' = [tasks EXCEPT ![t].st = st,
                                  ![t].loaded = st,
                                  ![t].calls = @ + 1,
                                  ![t].pc = "dns"]
  /\ UNCHANGED << OtherVars, files, sem, wg, sent, expirySent, writeFailed, otherParts >>

\* faulty variant: an error counts as available
DnsStopsOnError(result) == result \in {"available", "error"}

\* if err != nil { warn } else if available { handleAvailable; return }
DnsStops(result) == result = "available"

\* available, err := p.dns.IsAvailable(domain), answering `result`
Probe(t, result) ==
  /\ tasks[t].pc = "dns"
  /\ tasks' = [tasks EXCEPT ![t].dns = result,
                            ![t].pc = IF DnsStops(result)
                                      THEN "handleAvailable"
                                      ELSE "checkExpiration"]
  /\ UNCHANGED << OtherVars, files, sem, wg, sent, expirySent, writeFailed,
                  retries, backoff, dirEntries, dirBefore, whoisCall,
                  callParts >>

\* the DNS probe of ProcessDomain
Dns(t) ==
  \E result \in DnsResults :
    /\ Probe(t, result)
    /\ UNCHANGED lastProbe

\* the same probe, with the domain's last two error-free answers kept
DnsRecorded(t) ==
  \E result \in DnsResults :
    /\ Probe(t, result)
    /\ lastProbe' =
         IF result = "error"
         THEN lastProbe
         ELSE [lastProbe EXCEPT ![tasks[t].dom] =
                 [prev |-> @.cur, cur |-> result]]

\* p.notifier.Send(...) has been called and has returned:
\* state.NotifiedAvailable = true, and on to the Save
AvailableNotified(t) ==
  /\ sent' = [sent EXCEPT ![tasks[t].dom].available = @ + 1]
  /\ tasks' = [tasks EXCEPT ![t].st.NotifiedAvailable = TRUE,
                            ![t].sendsAvailable = @ + 1,
                            ![t].pc = "saveAvailable"]

\* handleAvailable up to the Save: Send, then set the flag
HandleAvailable(t) ==
  /\ tasks[t].pc = "handleAvailable"
  /\ IF ShouldNotifyAvailable(tasks[t].st)
     THEN AvailableNotified(t)
     ELSE /\ tasks' = [tasks EXCEPT ![t].pc = "release"]
          /\ UNCHANGED sent
  /\ UNCHANGED << OtherVars, files, sem, wg, expirySent, writeFailed, otherParts >>

\* p.state.Save(domain, state), then on to `next`
Save(t, next) ==
  /\ \E outcome \in WriteOutcomes :
       /\ files' = saveState(files, tasks[t].dom, tasks[t].st, outcome)
       /\ writeFailed' = (writeFailed \/ outcome # "ok")
  /\ tasks' = [tasks EXCEPT ![t].saves = @ + 1, ![t].pc = next]
  /\ UNCHANGED << OtherVars, sem, wg, sent, expirySent, otherParts >>

\* faulty variant: the return after handleAvailable is missing
SaveAvailableNoReturn(t) ==
  /\ tasks[t].pc = "saveAvailable"
  /\ Save(t, "checkExpiration")

\* handleAvailable's Save; ProcessDomain returns after it
SaveAvailable(t) ==
  /\ tasks[t].pc = "saveAvailable"
  /\ Save(t, "release")

\* hasValidExpiration decides between the cached date and a WHOIS lookup;
\* available and err are not read again
AfterProbe(task, t) ==
  [task EXCEPT !.pc = IF hasValidExpiration(task.st, t)
                      THEN "handleExpiry"
                      ELSE "whois",
               !.dns = "none"]

\* ProcessDomain goes on after a probe that did not say "available"
CheckExpiration(t) ==
  /\ tasks[t].pc = "checkExpiration"
  /\ tasks' = [tasks EXCEPT ![t] = AfterProbe(tasks[t], now)]
  /\ UNCHANGED << OtherVars, files, sem, wg, sent, expirySent, writeFailed, otherParts >>

\* the errors GetExpirationDate returns: no WHOIS text after all retries,
\* text the WHOIS parser rejects, an expiration string ParseExpiration rejects
WhoisErrors == {"transport", "parse", "expiration"}

\* faulty variant: the error is logged and processing goes on
AfterWhoisIgnoringError(err) == "saveExpiration"

\* if err != nil { warn; return }
AfterWhois(err) == IF err = "none" THEN "saveExpiration" ELSE "release"

\* expDate, err := p.whois.GetExpirationDate(domain) has returned `err` and,
\* without an error, the date now + off; on an error return, otherwise
\* domainState.Expiration = expDate
WhoisReturn(t, err, off) ==
  tasks' = [tasks EXCEPT
              ![t].whois = TRUE,
              ![t].whoisErr = err,
              ![t].st.Expiration =
                 IF AfterWhois(err) = "release" THEN @
                 ELSE IF err = "none" THEN now + off ELSE 0,
              ![t].pc = AfterWhois(err)]

\* the WHOIS lookup of ProcessDomain, as one step
Whois(t) ==
  /\ tasks[t].pc = "whois"
  /\ \E err \in WhoisErrors \cup {"none"}, off \in WhoisOffsets :
       WhoisReturn(t, err, off)
  /\ UNCHANGED << OtherVars, files, sem, wg, sent, expirySent, writeFailed, otherParts >>

\* -------------------------------------------------------- GetExpirationDate
\* what one call of the WHOIS transport gives: an error, text the WHOIS
\* parser rejects, text whose expiration string does not parse, good text
TransportOutcomes == {"error", "garbled", "nodate", "dated"}

\* rand.Intn(1000) milliseconds: the least and the largest value
Jitters == {0, 999}

\* faulty variant: one attempt too many
LoopContinuesInclusive(i, n) == i <= n

\* QueryWithRetries' loop condition
LoopContinues(i, n) == i < n

\* faulty variant: text that will not parse is taken for a failed call
TransportFailedOrGarbled(outcome) == outcome \in {"error", "garbled"}

\* raw, err = whois.Whois(domain); err != nil
TransportFailed(outcome) == outcome = "error"

\* faulty variant: the backoff is not doubled
NextBackoffConstant(b) == b

\* the loop's step: backoff = backoff*2
NextBackoff(b) == b * 2

\* ProcessDomain calls GetExpirationDate, which calls QueryWithRetries:
\* i, backoff := 0, c.cfg.Backoff
WhoisBegin(t) ==
  /\ tasks[t].pc = "whois"
  /\ whoisCall.pc = "idle"
  /\ whoisCall' = [IdleCall EXCEPT !.pc = "loop", !.backoff = backoff]
  /\ UNCHANGED << OtherVars, files, sem, wg, tasks, sent, expirySent,
                  writeFailed, retries, backoff, lastProbe, dirEntries,
                  dirBefore, callParts >>

WhoisVars ==
  << OtherVars, files, sem, wg, tasks, sent, expirySent, writeFailed,
     retries, backoff, lastProbe, dirEntries, dirBefore, callParts >>

\* one attempt: whois.Whois(domain); without an error its text is returned
WhoisCall ==
  /\ whoisCall.pc = "loop"
  /\ LoopContinues(whoisCall.i, retries)
  /\ \E outcome \in TransportOutcomes :
       whoisCall' =
         IF TransportFailed(outcome)
         THEN [whoisCall EXCEPT !.outcomes = Append(@, outcome),
                                !.pc = "sleep"]
         ELSE [whoisCall EXCEPT !.outcomes = Append(@, outcome),
                                !.raw = outcome,
                                !.pc = "parse"]
  /\ UNCHANGED WhoisVars

\* time.Sleep(backoff + jitter), then i+1 and backoff*2
WhoisSleep ==
  /\ whoisCall.pc = "sleep"
  /\ \E jitter \in Jitters :
       whoisCall' = [whoisCall EXCEPT
                       !.slept = Append(@, whoisCall.backoff + jitter),
                       !.i = @ + 1,
                       !.backoff = NextBackoff(@),
                       !.pc = "loop"]
  /\ UNCHANGED WhoisVars

\* the loop ends without text: QueryWithRetries returns ""
WhoisGiveUp ==
  /\ whoisCall.pc = "loop"
  /\ ~LoopContinues(whoisCall.i, retries)
  /\ whoisCall' = [whoisCall EXCEPT !.raw = "empty", !.pc = "parse"]
  /\ UNCHANGED WhoisVars

\* GetExpirationDate after QueryWithRetries: raw == "", whoisparser.Parse,
\* ParseExpiration
WhoisParse ==
  /\ whoisCall.pc = "parse"
  /\ whoisCall' = [whoisCall EXCEPT
                     !.err = CASE whoisCall.raw = "empty"   -> "transport"
                               [] whoisCall.raw = "garbled" -> "parse"
                               [] whoisCall.raw = "nodate"  -> "expiration"
                               [] OTHER                     -> "none",
                     !.pc = "returned"]
  /\ UNCHANGED WhoisVars

\* GetExpirationDate returns to ProcessDomain
WhoisEnd(t) ==
  /\ tasks[t].pc = "whois"
  /\ whoisCall.pc = "returned"
  /\ \E off \in WhoisOffsets : WhoisReturn(t, whoisCall.err, off)
  /\ whoisCall' = IdleCall
  /\ UNCHANGED << OtherVars, files, sem, wg, sent, expirySent, writeFailed,
                  retries, backoff, lastProbe, dirEntries, dirBefore,
                  callParts >>

\* faulty variant: the date is kept in memory until handleExpiry saves
SaveExpirationSkipped(t) ==
  /\ tasks[t].pc = "saveExpiration"
  /\ tasks' = [tasks EXCEPT ![t].pc = "handleExpiry"]
  /\ UNCHANGED << OtherVars, files, sem, wg, sent, expirySent, writeFailed,
                  otherParts >>

\* p.state.Save(domain, domainState) right after the lookup
SaveExpiration(t) ==
  /\ tasks[t].pc = "saveExpiration"
  /\ Save(t, "handleExpiry")

\* p.notifier.Send(...) has been called and has returned:
\* state.NotifiedExpiry = true, and on to the Save
ExpiryNotified(t) ==
  /\ sent' = [sent EXCEPT ![tasks[t].dom].expiry = @ + 1]
  /\ expirySent' =
       expirySent \cup {<<tasks[t].dom, tasks[t].st.Expiration>>}
  /\ tasks' = [tasks EXCEPT ![t].st.NotifiedExpiry = TRUE,
                            ![t].sendsExpiry = @ + 1,
                            ![t].pc = "saveExpiry"]

\* the condition under which handleExpiry notifies
ExpiryDue(t) ==
  ShouldNotifyExpiry(DaysLeft(tasks[t].st.Expiration, now),
                     ThresholdDays, tasks[t].st)

\* handleExpiry up to the Save: Send, then set the flag
HandleExpiry(t) ==
  /\ tasks[t].pc = "handleExpiry"
  /\ IF ExpiryDue(t)
     THEN ExpiryNotified(t)
     ELSE /\ tasks' = [tasks EXCEPT ![t].pc = "release"]
          /\ UNCHANGED << sent, expirySent >>
  /\ UNCHANGED << OtherVars, files, sem, wg, writeFailed, otherParts >>

\* handleExpiry's Save
SaveExpiry(t) ==
  /\ tasks[t].pc = "saveExpiry"
  /\ Save(t, "release")

\* faulty variant: after a failed lookup the semaphore slot is not given back
ReleaseUnlessFailed(t) ==
  /\ tasks[t].pc = "release"
  /\ sem' = IF tasks[t].whoisErr = "none" THEN sem - 1 ELSE sem
  /\ tasks' = [tasks EXCEPT ![t] = [IdleTask EXCEPT !.pc = "released",
                                                   !.dom = tasks[t].dom,
                                                   !.calls = tasks[t].calls]]
  /\ UNCHANGED << OtherVars, files, wg, sent, expirySent, writeFailed, otherParts >>

\* ProcessDomain has returned and its locals are gone;
\* defer func() { <-sem }()
Release(t) ==
  /\ tasks[t].pc = "release"
  /\ sem' = sem - 1
  /\ tasks' = [tasks EXCEPT ![t] = [IdleTask EXCEPT !.pc = "released",
                                                   !.dom = tasks[t].dom,
                                                   !.calls = tasks[t].calls]]
  /\ UNCHANGED << OtherVars, files, wg, sent, expirySent, writeFailed, otherParts >>

\* faulty variant: the goroutine ends without wg.Done()
DoneForgotten(t) ==
  /\ tasks[t].pc = "released"
  /\ tasks' = [tasks EXCEPT ![t].pc = "done"]
  /\ UNCHANGED << OtherVars, files, sem, wg, sent, expirySent, writeFailed, otherParts >>

\* defer wg.Done()
Done(t) ==
  /\ tasks[t].pc = "released"
  /\ wg' = wg - 1
  /\ tasks' = [tasks EXCEPT ![t].pc = "done"]
  /\ UNCHANGED << OtherVars, files, sem, sent, expirySent, writeFailed, otherParts >>

\* -------------------------------------------------------------- environment
\* half a day passes
Tick ==
  /\ now < Epoch + MaxTicks
  /\ now' = now + 1
  /\ UNCHANGED << domains, concurrency, run, files, mainPc, idx, sem, wg,
                  tasks, sent, expirySent, writeFailed, otherParts >>

\* the scheduler invokes the program again over the same state directory,
\* up to `limit` invocations in all; init() begins cleanupState, whose
\* os.ReadDir lists the directory or fails
Restart(limit) ==
  /\ run < limit
  /\ run' = run + 1
  /\ mainPc' = "init"
  /\ idx' = 1
  /\ sem' = 0
  /\ wg' = 0
  /\ tasks' = [t \in TaskIds |-> IdleTask]
  /\ dirBefore' = files
  /\ dirEntries' \in {ReadDir(files), <<>>}
  /\ UNCHANGED << domains, concurrency, now, files, sent, expirySent,
                  writeFailed, retries, backoff, lastProbe, whoisCall,
                  callParts >>

\* the next invocation begins when the last one has returned
Rerun(limit) ==
  /\ mainPc = "returned"
  /\ Restart(limit)

NextRun == Rerun(MaxRuns)

\* one more invocation than NextRun allows: a domain can be seen available,
\* registered and available again
NextRunHistory == Rerun(MaxRuns + 1)

Next ==
  \/ CleanupEntry
  \/ StartMain
  \/ SkipBlank
  \/ AddTask
  \/ Acquire
  \/ LoopExit
  \/ WaitReturn
  \/ \E t \in TaskIds : Load(t)
  \/ \E t \in TaskIds : Dns(t)
  \/ \E t \in TaskIds : HandleAvailable(t)
  \/ \E t \in TaskIds : SaveAvailable(t)
  \/ \E t \in TaskIds : CheckExpiration(t)
  \/ \E t \in TaskIds : Whois(t)
  \/ \E t \in TaskIds : SaveExpiration(t)
  \/ \E t \in TaskIds : HandleExpiry(t)
  \/ \E t \in TaskIds : SaveExpiry(t)
  \/ \E t \in TaskIds : Release(t)
  \/ \E t \in TaskIds : Done(t)
  \/ Tick
  \/ NextRun

Spec == Init /\ [][Next]_vars

\* one invocation of the program
NextPool ==
  \/ StartMain
  \/ SkipBlank
  \/ AddTask
  \/ Acquire
  \/ LoopExit
  \/ WaitReturn
  \/ \E t \in TaskIds : Load(t)
  \/ \E t \in TaskIds : Dns(t)
  \/ \E t \in TaskIds : HandleAvailable(t)
  \/ \E t \in TaskIds : SaveAvailable(t)
  \/ \E t \in TaskIds : CheckExpiration(t)
  \/ \E t \in TaskIds : Whois(t)
  \/ \E t \in TaskIds : SaveExpiration(t)
  \/ \E t \in TaskIds : HandleExpiry(t)
  \/ \E t \in TaskIds : SaveExpiry(t)
  \/ \E t \in TaskIds : Release(t)
  \/ \E t \in TaskIds : Done(t)

SpecPool == InitPool /\ [][NextPool]_vars

\* one invocation over two domains with a blank entry between them; every
\* call returns (timeouts, bounded retries) and the goroutines keep being
\* scheduled
InitContained == InitWith({<< DomA, Spaces, DomB >>})

SpecContained == InitContained /\ [][NextPool]_vars /\ WF_vars(NextPool)

\* one invocation over each of the short lists, with the same scheduling
InitReturns == InitWith(RunLists \cup {<< DomA, Spaces, DomB >>})

SpecReturns == InitReturns /\ [][NextPool]_vars /\ WF_vars(NextPool)

\* one invocation over a state directory that holds files
NextCleanup ==
  \/ CleanupEntry
  \/ StartMain
  \/ SkipBlank
  \/ AddTask
  \/ Acquire
  \/ LoopExit
  \/ WaitReturn
  \/ \E t \in TaskIds : Load(t)
  \/ \E t \in TaskIds : Dns(t)
  \/ \E t \in TaskIds : HandleAvailable(t)
  \/ \E t \in TaskIds : SaveAvailable(t)
  \/ \E t \in TaskIds : CheckExpiration(t)
  \/ \E t \in TaskIds : Whois(t)
  \/ \E t \in TaskIds : SaveExpiration(t)
  \/ \E t \in TaskIds : HandleExpiry(t)
  \/ \E t \in TaskIds : SaveExpiry(t)
  \/ \E t \in TaskIds : Release(t)
  \/ \E t \in TaskIds : Done(t)

SpecCleanup == InitCleanup /\ [][NextCleanup]_vars

\* one invocation, with the WHOIS lookup taken attempt by attempt
NextWhois ==
  \/ StartMain
  \/ SkipBlank
  \/ AddTask
  \/ Acquire
  \/ LoopExit
  \/ WaitReturn
  \/ \E t \in TaskIds : Load(t)
  \/ \E t \in TaskIds : Dns(t)
  \/ \E t \in TaskIds : HandleAvailable(t)
  \/ \E t \in TaskIds : SaveAvailable(t)
  \/ \E t \in TaskIds : CheckExpiration(t)
  \/ \E t \in TaskIds : WhoisBegin(t)
  \/ WhoisCall
  \/ WhoisSleep
  \/ WhoisGiveUp
  \/ WhoisParse
  \/ \E t \in TaskIds : WhoisEnd(t)
  \/ \E t \in TaskIds : SaveExpiration(t)
  \/ \E t \in TaskIds : HandleExpiry(t)
  \/ \E t \in TaskIds : SaveExpiry(t)
  \/ \E t \in TaskIds : Release(t)
  \/ \E t \in TaskIds : Done(t)

\* every transport call returns and the goroutines keep being scheduled
SpecWhois == InitWhois /\ [][NextWhois]_vars /\ WF_vars(NextWhois)

\* repeated invocations at a fixed time, with the DNS answers recorded
NextHistory ==
  \/ CleanupEntry
  \/ StartMain
  \/ SkipBlank
  \/ AddTask
  \/ Acquire
  \/ LoopExit
  \/ WaitReturn
  \/ \E t \in TaskIds : Load(t)
  \/ \E t \in TaskIds : DnsRecorded(t)
  \/ \E t \in TaskIds : HandleAvailable(t)
  \/ \E t \in TaskIds : SaveAvailable(t)
  \/ \E t \in TaskIds : CheckExpiration(t)
  \/ \E t \in TaskIds : Whois(t)
  \/ \E t \in TaskIds : SaveExpiration(t)
  \/ \E t \in TaskIds : HandleExpiry(t)
  \/ \E t \in TaskIds : SaveExpiry(t)
  \/ \E t \in TaskIds : Release(t)
  \/ \E t \in TaskIds : Done(t)
  \/ NextRunHistory

SpecHistory == Init /\ [][NextHistory]_vars

\* ---------------------------------------------------------------- dns.Checker
\* the variables of main, ProcessAll, ProcessDomain and GetExpirationDate
progVars ==
  << domains, concurrency, now, run, files, mainPc, idx, sem, wg, tasks,
     sent, expirySent, writeFailed, retries, backoff, lastProbe, dirEntries,
     dirBefore, whoisCall >>

\* a byte holds the values below ByteRange; byte(n) keeps the low eight bits
Byte(n) == n % ByteRange

\* []byte(label) for the characters of the sample names
ByteOf(ch) ==
  CASE ch = "a" -> 97  [] ch = "b" -> 98  [] ch = "c" -> 99
    [] ch = "e" -> 101 [] ch = "k" -> 107 [] ch = "l" -> 108
    [] ch = "m" -> 109 [] ch = "o" -> 111 [] ch = "p" -> 112
    [] ch = "s" -> 115 [] ch = "t" -> 116 [] ch = "u" -> 117
    [] ch = "x" -> 120 [] ch = "." -> 46

\* strings.Split(s, sep) for a separator of one character
RECURSIVE Split(_, _)
Split(s, sep) ==
  IF \A i \in 1..Len(s) : s[i] # sep
  THEN << s >>
  ELSE LET i == CHOOSE k \in 1..Len(s) :
                  s[k] = sep /\ \A j \in 1..(k - 1) : s[j] # sep
       IN  << SubSeq(s, 1, i - 1) >> \o Split(SubSeq(s, i + 1, Len(s)), sep)

\* for each label: byte(len(label)), then the label's bytes
RECURSIVE AppendLabels(_)
AppendLabels(labels) ==
  IF labels = <<>>
  THEN <<>>
  ELSE LET label == Head(labels)
       IN  << Byte(Len(label)) >>
             \o [i \in 1..Len(label) |-> ByteOf(label[i])]
             \o AppendLabels(Tail(labels))

\* faulty variant: the low byte first
PutUint16LittleEndian(v) == << Byte(v), Byte(v \div ByteRange) >>

\* binary.BigEndian.PutUint16
PutUint16(v) == << Byte(v \div ByteRange), Byte(v) >>

\* ID 1, flags 0x0100, QDCOUNT 1, ANCOUNT, NSCOUNT and ARCOUNT 0
QueryHeader == << 0, 1, 1, 0, 0, 1, 0, 0, 0, 0, 0, 0 >>

createDNSQuery(domain, recordType) ==
  QueryHeader \o AppendLabels(Split(domain, ".")) \o << 0 >>
    \o PutUint16(recordType) \o << 0, 1 >>

\* faulty variant: only the low byte of the answer count is read
Uint16LowByte(hi, lo) == lo

\* binary.BigEndian.Uint16
Uint16(hi, lo) == hi * ByteRange + lo

\* parseSOAResponse: (hasSOA, err); response[6:8] are the 7th and 8th byte
parseSOAResponse(response) ==
  IF Len(response) < HeaderLen
  THEN [hasSOA |-> FALSE, err |-> "short"]
  ELSE [hasSOA |-> Uint16(response[7], response[8]) > 0, err |-> "none"]

\* names as the tests query them, the empty name, a name with a trailing
\* dot, and names whose first label has ByteRange - 1 and ByteRange bytes
Example  == <<"e", "x", "a", "m", "p", "l", "e", ".", "c", "o", "m">>
TestCoUk == <<"t", "e", "s", "t", ".", "c", "o", ".", "u", "k">>
ABC      == <<"a", ".", "b", ".", "c">>
Rooted   == <<"a", ".", "c", ".">>
WideDom  == [i \in 1..(ByteRange - 1) |-> "a"] \o <<".", "c">>
LongDom  == [i \in 1..ByteRange |-> "a"] \o <<".", "c">>

DnsDomains == {Example, TestCoUk, ABC, DomA, Empty, Rooted, WideDom, LongDom}

\* record types: SOA, and values that need one and two bytes
RecordTypes == {TypeSOA, ByteRange - 1, ByteRange, ByteRange + 1}

\* a reply datagram: its ID, the RCODE in its flags, the answer count's two
\* bytes, and what follows the header
Reply(id, rcode, hi, lo, body) ==
  << 0, id, 129, 128 + rcode, 0, 1, hi, lo, 0, 0, 0, 0 >> \o body

FullReplies ==
  { Reply(id, rcode, hi, lo, body) :
      id \in {1, 2}, rcode \in {0, 3}, hi \in {0, 1}, lo \in {0, 1, 255},
      body \in {<<>>, <<7>>} }

\* what conn.Read may give: whole replies and cut ones
Replies ==
  FullReplies \cup
    { SubSeq(r, 1, n) : r \in FullReplies, n \in {0, 1, 8, HeaderLen - 1} }

\* IsAvailable(domain) is called
DnsBegin ==
  /\ dnsCall.pc = "idle"
  /\ \E d \in DnsDomains :
       dnsCall' = [NoDnsCall EXCEPT !.pc = "nameserver", !.domain = d,
                                    !.typ = TypeSOA]
  /\ UNCHANGED << progVars, parseCall, storeCall, moreCalls >>

\* IsAvailable returns false and an error
DnsFail(err) ==
  dnsCall' = [dnsCall EXCEPT !.pc = "returned", !.available = FALSE,
                             !.err = err]

\* c.getNameserver(): the scanner may fail on /etc/resolv.conf
DnsNameserver ==
  /\ dnsCall.pc = "nameserver"
  /\ \E ok \in BOOLEAN :
       IF ok THEN dnsCall' = [dnsCall EXCEPT !.pc = "query"]
             ELSE DnsFail("config")
  /\ UNCHANGED << progVars, parseCall, storeCall, moreCalls >>

\* query := c.createDNSQuery(domain, 6)
DnsQuery ==
  /\ dnsCall.pc = "query"
  /\ dnsCall' = [dnsCall EXCEPT
                   !.pc = "dial",
                   !.query = createDNSQuery(dnsCall.domain, dnsCall.typ)]
  /\ UNCHANGED << progVars, parseCall, storeCall, moreCalls >>

\* net.DialUDP
DnsDial ==
  /\ dnsCall.pc = "dial"
  /\ \E ok \in BOOLEAN :
       IF ok THEN dnsCall' = [dnsCall EXCEPT !.pc = "write"]
             ELSE DnsFail("connect")
  /\ UNCHANGED << progVars, parseCall, storeCall, moreCalls >>

\* conn.Write(query)
DnsWrite ==
  /\ dnsCall.pc = "write"
  /\ \E ok \in BOOLEAN :
       IF ok THEN dnsCall' = [dnsCall EXCEPT !.pc = "read"]
             ELSE DnsFail("send")
  /\ UNCHANGED << progVars, parseCall, storeCall, moreCalls >>

\* conn.Read(response): a datagram, or an error such as the deadline
DnsRead ==
  /\ dnsCall.pc = "read"
  /\ \/ DnsFail("receive")
     \/ \E r \in Replies :
          dnsCall' = [dnsCall EXCEPT !.pc = "parse", !.response = r]
  /\ UNCHANGED << progVars, parseCall, storeCall, moreCalls >>

\* c.parseSOAResponse(response[:n]); return !hasSOA, nil
DnsParse ==
  /\ dnsCall.pc = "parse"
  /\ LET parsed == parseSOAResponse(dnsCall.response)
     IN  IF parsed.err # "none"
         THEN DnsFail("parse")
         ELSE dnsCall' = [dnsCall EXCEPT !.pc = "returned",
                                         !.available = ~parsed.hasSOA,
                                         !.err = "none"]
  /\ UNCHANGED << progVars, parseCall, storeCall, moreCalls >>

\* createDNSQuery called on its own, as TestCreateDNSQuery does
DnsBuild ==
  /\ dnsCall.pc = "idle"
  /\ \E d \in DnsDomains, typ \in RecordTypes :
       dnsCall' = [NoDnsCall EXCEPT !.pc = "built", !.domain = d,
                                    !.typ = typ,
                                    !.query = createDNSQuery(d, typ)]
  /\ UNCHANGED << progVars, parseCall, storeCall, moreCalls >>

InitDns == InitWith({<< DomA >>}) /\ concurrency = 1

NextDns ==
  \/ DnsBegin
  \/ DnsNameserver
  \/ DnsQuery
  \/ DnsDial
  \/ DnsWrite
  \/ DnsRead
  \/ DnsParse
  \/ DnsBuild

SpecDns == InitDns /\ [][NextDns]_vars

\* ---------------------------------------------------- whois.ParseExpiration
\* Times are seconds after 2000-01-01T00:00:00Z, with nanoseconds.
Digits == <<"0", "1", "2", "3", "4", "5", "6", "7", "8", "9">>

\* isDigit(s, i) of package time, for the 1-based position i
isDigit(s, i) == i <= Len(s) /\ \E k \in 1..10 : Digits[k] = s[i]

\* s[i] - '0'
DigitVal(ch) == (CHOOSE k \in 1..10 : Digits[k] = ch) - 1

\* atoi on a string of digits
RECURSIVE atoi(_)
atoi(s) ==
  IF s = <<>> THEN 0
  ELSE atoi(SubSeq(s, 1, Len(s) - 1)) * 10 + DigitVal(s[Len(s)])

Rest(s, n) == SubSeq(s, n + 1, Len(s))

\* getnum(s, fixed): one or two digits; with fixed, two
getnum(s, fixed) ==
  IF ~isDigit(s, 1) THEN [err |-> TRUE, n |-> 0, rest |-> s]
  ELSE IF ~isDigit(s, 2)
       THEN IF fixed THEN [err |-> TRUE, n |-> 0, rest |-> s]
            ELSE [err |-> FALSE, n |-> DigitVal(s[1]), rest |-> Rest(s, 1)]
       ELSE [err |-> FALSE, n |-> DigitVal(s[1]) * 10 + DigitVal(s[2]),
             rest |-> Rest(s, 2)]

isLeap(year) == year % 4 = 0 /\ (year % 100 # 0 \/ year % 400 = 0)

\* daysIn(month, year)
daysIn(month, year) ==
  IF month = 2 THEN (IF isLeap(year) THEN 29 ELSE 28)
  ELSE IF month \in {4, 6, 9, 11} THEN 30 ELSE 31

\* the days from 2000-01-01 to the given date
DaysSince2000(year, month, day) ==
  LET years == IF year >= 2000
               THEN 365 * (year - 2000)
                      + Cardinality({ y \in 2000..(year - 1) : isLeap(y) })
               ELSE 0 - 365 * (2000 - year)
                      - Cardinality({ y \in year..1999 : isLeap(y) })
      RECURSIVE before(_)
      before(m) == IF m = 1 THEN 0 ELSE before(m - 1) + daysIn(m - 1, year)
  IN  years + before(month) + day - 1

RECURSIVE Pow10(_)
Pow10(n) == IF n = 0 THEN 1 ELSE 10 * Pow10(n - 1)

\* the number of digits s starts with
RECURSIVE DigitRun(_)
DigitRun(s) == IF isDigit(s, 1) THEN 1 + DigitRun(Rest(s, 1)) ELSE 0

\* the fields parse collects; without a zone in the layout the time is UTC
NoFields ==
  [err |-> FALSE, year |-> 0, month |-> 1, day |-> 1, hour |-> 0, min |-> 0,
   sec |-> 0, nsec |-> 0, zoneOffset |-> 0, rest |-> <<>>]

\* one chunk of the layout applied to what is left of the value
ParseChunk(f, chunk) ==
  LET value == f.rest
      bad   == [f EXCEPT !.err = TRUE]
  IN
  CASE chunk = "2006" ->
         IF Len(value) < 4 \/ \E i \in 1..4 : ~isDigit(value, i) THEN bad
         ELSE [f EXCEPT !.year = atoi(SubSeq(value, 1, 4)),
                        !.rest = Rest(value, 4)]
    [] chunk = "01" ->
         LET g == getnum(value, TRUE)
         IN  IF g.err \/ g.n <= 0 \/ 12 < g.n THEN bad
             ELSE [f EXCEPT !.month = g.n, !.rest = g.rest]
    [] chunk = "02" ->
         LET g == getnum(value, TRUE)
         IN  IF g.err THEN bad ELSE [f EXCEPT !.day = g.n, !.rest = g.rest]
    [] chunk = "15" ->
         LET g == getnum(value, FALSE)
         IN  IF g.err \/ 24 <= g.n THEN bad
             ELSE [f EXCEPT !.hour = g.n, !.rest = g.rest]
    [] chunk = "04" ->
         LET g == getnum(value, TRUE)
         IN  IF g.err \/ 60 <= g.n THEN bad
             ELSE [f EXCEPT !.min = g.n, !.rest = g.rest]
    [] chunk = "05" ->
         LET g == getnum(value, TRUE)
         IN  IF g.err \/ 60 <= g.n THEN bad
             ELSE IF /\ Len(g.rest) >= 2
                     /\ g.rest[1] \in {".", ","}
                     /\ isDigit(g.rest, 2)
                  THEN \* a fractional second the layout does not have
                       LET n == DigitRun(Rest(g.rest, 1))
                           k == IF n > 9 THEN 9 ELSE n
                       IN  [f EXCEPT !.sec = g.n,
                                     !.nsec = atoi(SubSeq(g.rest, 2, k + 1))
                                                * Pow10(9 - k),
                                     !.rest = Rest(g.rest, n + 1)]
                  ELSE [f EXCEPT !.sec = g.n, !.rest = g.rest]
    [] chunk = "Z07:00" ->
         IF Len(value) >= 1 /\ value[1] = "Z"
         THEN [f EXCEPT !.zoneOffset = 0, !.rest = Rest(value, 1)]
         ELSE IF Len(value) < 6 THEN bad
         ELSE IF value[4] # ":" THEN bad
         ELSE LET hr == getnum(SubSeq(value, 2, 3), TRUE)
                  mm == getnum(SubSeq(value, 5, 6), TRUE)
              IN  IF hr.err \/ mm.err \/ hr.n > 24 \/ mm.n > 60 THEN bad
                  ELSE IF value[1] \notin {"+", "-"} THEN bad
                  ELSE [f EXCEPT
                          !.zoneOffset =
                             IF value[1] = "-"
                             THEN 0 - (hr.n * 60 + mm.n) * 60
                             ELSE (hr.n * 60 + mm.n) * 60,
                          !.rest = Rest(value, 6)]
    [] OTHER -> \* a literal: skip(value, prefix)
         IF Len(value) = 0 \/ value[1] # chunk THEN bad
         ELSE [f EXCEPT !.rest = Rest(value, 1)]

RECURSIVE ParseChunks(_, _)
ParseChunks(f, layout) ==
  IF f.err \/ layout = <<>> THEN f
  ELSE ParseChunks(ParseChunk(f, Head(layout)), Tail(layout))

\* time.RFC3339 = "2006-01-02T15:04:05Z07:00" and "2006-01-02" in chunks
RFC3339 ==
  <<"2006", "-", "01", "-", "02", "T", "15", ":", "04", ":", "05", "Z07:00">>
DateOnly == <<"2006", "-", "01", "-", "02">>

\* time.Parse(layout, value): (t, err)
Parse(layout, value) ==
  LET f == ParseChunks([NoFields EXCEPT !.rest = value], layout)
  IN  IF \/ f.err
         \/ f.rest # <<>>                         \* extra text
         \/ f.day < 1 \/ f.day > daysIn(f.month, f.year)
      THEN [err |-> TRUE, sec |-> 0, nsec |-> 0]
      ELSE [err |-> FALSE,
            sec |-> DaysSince2000(f.year, f.month, f.day) * 86400
                      + f.hour * 3600 + f.min * 60 + f.sec - f.zoneOffset,
            nsec |-> f.nsec]

\* dates, times of day and zones that the sample strings are made of
SampleDates ==
  { <<"2", "0", "2", "5", "-", "0", "5", "-", "0", "1">>,
    <<"2", "0", "2", "4", "-", "0", "2", "-", "2", "9">>,
    <<"2", "0", "2", "5", "-", "0", "2", "-", "2", "9">>,
    <<"2", "0", "2", "5", "-", "1", "3", "-", "0", "1">>,
    <<"2", "0", "2", "5", "-", "5", "-", "1">> }
SampleTimes ==
  { <<>>,
    <<"T", "1", "2", ":", "3", "4", ":", "5", "6">>,
    <<"T", "1", ":", "0", "2", ":", "0", "3">>,
    <<"T", "1", "2", ":", "3", "4", ":", "5", "6", ".", "5">>,
    <<"T", "1", "2", ":", "3", "4", ":", "5", "6", ",", "5">>,
    <<" ", "1", "2", ":", "3", "4", ":", "5", "6">>,
    <<"T", "2", "3", ":", "5", "9", ":", "6", "0">> }
SampleZones ==
  { <<>>,
    <<"Z">>,
    <<"+", "0", "2", ":", "0", "0">>,
    <<"-", "0", "5", ":", "3", "0">>,
    <<"Z", "x">> }

\* what the WHOIS parser may hand over as the expiration date
RawDates ==
  { d \o t \o z : d \in SampleDates, t \in SampleTimes, z \in SampleZones }
    \cup { <<"i", "n", "v", "a", "l", "i", "d">>, <<>> }

\* ParseExpiration(raw) is called
ParseBegin ==
  /\ parseCall.pc = "idle"
  /\ \E raw \in RawDates :
       parseCall' = [NoParseCall EXCEPT !.pc = "rfc3339", !.raw = raw]
  /\ UNCHANGED << progVars, dnsCall, storeCall, moreCalls >>

\* if t, err := time.Parse(time.RFC3339, raw); err == nil { return t, nil }
ParseFirst ==
  /\ parseCall.pc = "rfc3339"
  /\ LET t == Parse(RFC3339, parseCall.raw)
     IN  parseCall' =
           IF ~t.err
           THEN [parseCall EXCEPT !.pc = "returned", !.t = t, !.by = "rfc3339"]
           ELSE [parseCall EXCEPT !.pc = "dateonly"]
  /\ UNCHANGED << progVars, dnsCall, storeCall, moreCalls >>

\* return time.Parse("2006-01-02", raw)
ParseSecond ==
  /\ parseCall.pc = "dateonly"
  /\ parseCall' = [parseCall EXCEPT !.pc = "returned",
                                    !.t = Parse(DateOnly, parseCall.raw),
                                    !.by = "dateonly"]
  /\ UNCHANGED << progVars, dnsCall, storeCall, moreCalls >>

InitParse == InitWith({<< DomA >>}) /\ concurrency = 1

NextParse == ParseBegin \/ ParseFirst \/ ParseSecond

SpecParse == InitParse /\ [][NextParse]_vars

\* ------------------------------------------------------------ state store
\* the states Save is given: no date, a date near and one far, any flags
DomainStates ==
  [Expiration : {0, Epoch + 1, Epoch + 40},
   NotifiedExpiry : BOOLEAN, NotifiedAvailable : BOOLEAN]

StoreDomains == {DomA, DomB, DomO}

\* the state directory before the Save: the file of a.c may exist
StoreDirs ==
  { [EmptyDir EXCEPT ![stateFilePath(DomA)] = c] :
      c \in ContentsOf(stateFilePath(DomA)) \cup {Truncated} }

\* Save(domain, st) is called
StoreBegin ==
  /\ storeCall.pc = "idle"
  /\ \E d \in StoreDomains, st \in DomainStates :
       storeCall' = [NoStoreCall EXCEPT !.pc = "save", !.dom = d, !.st = st]
  /\ UNCHANGED << progVars, dnsCall, parseCall, moreCalls >>

\* saveState
StoreSave ==
  /\ storeCall.pc = "save"
  /\ \E outcome \in WriteOutcomes :
       /\ files' = saveState(files, storeCall.dom, storeCall.st, outcome)
       /\ storeCall' = [storeCall EXCEPT !.pc = "load", !.outcome = outcome]
  /\ UNCHANGED << domains, concurrency, now, run, mainPc, idx, sem, wg, tasks,
                  sent, expirySent, writeFailed, retries, backoff, lastProbe,
                  dirEntries, dirBefore, whoisCall, dnsCall, parseCall,
                  moreCalls >>

\* Load(domain)
StoreLoad ==
  /\ storeCall.pc = "load"
  /\ \E readOk \in BOOLEAN :
       storeCall' = [storeCall EXCEPT
                       !.pc = "loaded",
                       !.readOk = readOk,
                       !.out = loadState(files, storeCall.dom, readOk)]
  /\ UNCHANGED << progVars, dnsCall, parseCall, moreCalls >>

InitStore ==
  /\ InitParts
  /\ domains = << DomA >>
  /\ concurrency = 1
  /\ now = Epoch
  /\ run = 1
  /\ files \in StoreDirs
  /\ dirBefore = EmptyDir
  /\ dirEntries = <<>>
  /\ mainPc = "init"
  /\ idx = 1
  /\ sem = 0
  /\ wg = 0
  /\ tasks = [t \in TaskIds |-> IdleTask]
  /\ sent = [d \in Names |-> [available |-> 0, expiry |-> 0]]
  /\ expirySent = {}
  /\ writeFailed = FALSE

NextStore == StoreBegin \/ StoreSave \/ StoreLoad

SpecStore == InitStore /\ [][NextStore]_vars

\* ------------------------------------------------------- init() and main()
\* CONFIG_FILE: not set, naming a file that cannot be read, a file that is
\* not the JSON of a Config, a good file
ConfigFiles == {"unset", "unreadable", "invalid", "valid"}

\* Logger.Fatalf: the message is printed, then os.Exit(1)
Fatalf(b, cause) == [b EXCEPT !.pc = "exited", !.exit = cause]

BootVars ==
  << progVars, dnsCall, parseCall, storeCall, cfgCall, sendCall, daysCall,
     keyCall >>

\* the process starts: init() has called initDefaults; the environment
\* decides about the configuration file and the state directory
BootBegin ==
  /\ boot.pc = "idle"
  /\ mainPc = "init"
  /\ \E file \in ConfigFiles, mkdirOk \in BOOLEAN :
       boot' = [NoBoot EXCEPT !.pc = "loadFileConfig", !.file = file,
                              !.mkdirOk = mkdirOk]
  /\ UNCHANGED BootVars

\* loadFileConfig(os.Getenv("CONFIG_FILE"))
BootLoadFile ==
  /\ boot.pc = "loadFileConfig"
  /\ boot' = CASE boot.file = "unreadable" -> Fatalf(boot, "config read")
               [] boot.file = "invalid"    -> Fatalf(boot, "config parse")
               [] OTHER -> [boot EXCEPT !.pc = "cleanupState"]
  /\ UNCHANGED BootVars

\* overrideWithEnv, initLogger and cleanupState, which finds no entries
BootCleanup ==
  /\ boot.pc = "cleanupState"
  /\ CleanupFinished(dirEntries)
  /\ boot' = [boot EXCEPT !.pc = "MkdirAll"]
  /\ UNCHANGED BootVars

\* main: os.MkdirAll(cfg.StateDir, 0755)
BootMkdir ==
  /\ boot.pc = "MkdirAll"
  /\ boot' = IF boot.mkdirOk
             THEN [boot EXCEPT !.pc = "main"]
             ELSE Fatalf(boot, "state directory")
  /\ UNCHANGED BootVars

\* main calls processDomains
BootMain ==
  /\ boot.pc = "main"
  /\ StartMain

\* ProcessAll and its goroutines, once main has called it
NextRunning ==
  \/ SkipBlank
  \/ AddTask
  \/ Acquire
  \/ LoopExit
  \/ WaitReturn
  \/ \E t \in TaskIds : Load(t)
  \/ \E t \in TaskIds : Dns(t)
  \/ \E t \in TaskIds : HandleAvailable(t)
  \/ \E t \in TaskIds : SaveAvailable(t)
  \/ \E t \in TaskIds : CheckExpiration(t)
  \/ \E t \in TaskIds : Whois(t)
  \/ \E t \in TaskIds : SaveExpiration(t)
  \/ \E t \in TaskIds : HandleExpiry(t)
  \/ \E t \in TaskIds : SaveExpiry(t)
  \/ \E t \in TaskIds : Release(t)
  \/ \E t \in TaskIds : Done(t)

NextStartup ==
  \/ BootBegin
  \/ BootLoadFile
  \/ BootCleanup
  \/ BootMkdir
  \/ BootMain
  \/ NextRunning

SpecStartup == Init /\ [][NextStartup]_vars

\* ------------------------------------------------------------ Notifier.Send
SendVars ==
  << progVars, dnsCall, parseCall, storeCall, boot, cfgCall, daysCall,
     keyCall >>

\* handleAvailable or handleExpiry of task t calls p.notifier.Send, which
\* logs the notification
SendBegin(t) ==
  /\ sendCall.pc = "idle"
  /\ \/ /\ tasks[t].pc = "handleAvailable"
        /\ ShouldNotifyAvailable(tasks[t].st)
        /\ sendCall' = [sendCall EXCEPT !.pc = "check", !.task = t,
                                        !.kind = "available",
                                        !.outcome = "none"]
     \/ /\ tasks[t].pc = "handleExpiry"
        /\ ExpiryDue(t)
        /\ sendCall' = [sendCall EXCEPT !.pc = "check", !.task = t,
                                        !.kind = "expiry",
                                        !.outcome = "none"]
  /\ UNCHANGED SendVars

\* n.cfg.SMTPHost == "" || n.cfg.EmailFrom == "" || n.cfg.EmailTo == ""
SmtpConfigured(c) == c.host /\ c.from /\ c.to

\* if SMTP is not configured Send logs that and returns
SendCheck ==
  /\ sendCall.pc = "check"
  /\ sendCall' = IF SmtpConfigured(sendCall)
                 THEN [sendCall EXCEPT !.pc = "SendMail"]
                 ELSE [sendCall EXCEPT !.pc = "returned",
                                       !.outcome = "skipped"]
  /\ UNCHANGED SendVars

\* faulty variant: a failed delivery is raised to the caller
AfterSendMailRaising(failed) == IF failed THEN "raised" ELSE "returned"

\* if err := smtp.SendMail(...); err != nil { Errorf } else { Infof }
AfterSendMail(failed) == "returned"

\* smtp.SendMail delivers the message or fails
SendMail ==
  /\ sendCall.pc = "SendMail"
  /\ \E failed \in BOOLEAN :
       sendCall' = [sendCall EXCEPT
                      !.pc = AfterSendMail(failed),
                      !.outcome = IF failed THEN "failed" ELSE "delivered",
                      !.delivered = IF failed THEN @ ELSE @ + 1]
  /\ UNCHANGED SendVars

\* Send returns to its caller, which sets the flag and goes on to the Save
SendEnd(t) ==
  /\ sendCall.pc = "returned"
  /\ sendCall.task = t
  /\ sendCall' = [sendCall EXCEPT !.pc = "idle", !.task = 0,
                                  !.kind = "none"]
  /\ IF sendCall.kind = "available"
     THEN AvailableNotified(t) /\ UNCHANGED expirySent
     ELSE ExpiryNotified(t)
  /\ UNCHANGED << OtherVars, files, sem, wg, writeFailed, retries, backoff,
                  lastProbe, dirEntries, dirBefore, whoisCall, dnsCall,
                  parseCall, storeCall, boot, cfgCall, daysCall, keyCall >>

\* handleAvailable and handleExpiry when there is nothing to send
NoSend(t) ==
  \/ ~ShouldNotifyAvailable(tasks[t].st) /\ HandleAvailable(t)
  \/ ~ExpiryDue(t) /\ HandleExpiry(t)

\* one invocation with the SMTP settings drawn from all combinations, over an
\* empty state directory or one where a.c's availability has been notified
InitNotify ==
  /\ retries = DefaultRetries
  /\ backoff = DefaultBackoff
  /\ lastProbe = [d \in Names |-> [prev |-> "none", cur |-> "none"]]
  /\ whoisCall = IdleCall
  /\ dnsCall = NoDnsCall
  /\ parseCall = NoParseCall
  /\ storeCall = NoStoreCall
  /\ boot = NoBoot
  /\ cfgCall = NoCfgCall
  /\ daysCall = NoDaysCall
  /\ keyCall = NoKeyCall
  /\ \E host \in BOOLEAN, from \in BOOLEAN, to \in BOOLEAN :
       sendCall = [NoSendCall EXCEPT !.host = host, !.from = from, !.to = to]
  /\ dirEntries = <<>>
  /\ dirBefore = EmptyDir
  /\ domains \in RunLists
  /\ concurrency = 1
  /\ now = Epoch
  /\ run = 1
  /\ files \in {EmptyDir, [EmptyDir EXCEPT ![stateFilePath(DomA)] = SavedState]}
  /\ mainPc = "init"
  /\ idx = 1
  /\ sem = 0
  /\ wg = 0
  /\ tasks = [t \in TaskIds |-> IdleTask]
  /\ sent = [d \in Names |-> [available |-> 0, expiry |-> 0]]
  /\ expirySent = {}
  /\ writeFailed = FALSE

NextNotify ==
  \/ StartMain
  \/ SkipBlank
  \/ AddTask
  \/ Acquire
  \/ LoopExit
  \/ WaitReturn
  \/ \E t \in TaskIds : Load(t)
  \/ \E t \in TaskIds : Dns(t)
  \/ \E t \in TaskIds : SendBegin(t)
  \/ SendCheck
  \/ SendMail
  \/ \E t \in TaskIds : SendEnd(t)
  \/ \E t \in TaskIds : NoSend(t)
  \/ \E t \in TaskIds : SaveAvailable(t)
  \/ \E t \in TaskIds : CheckExpiration(t)
  \/ \E t \in TaskIds : Whois(t)
  \/ \E t \in TaskIds : SaveExpiration(t)
  \/ \E t \in TaskIds : SaveExpiry(t)
  \/ \E t \in TaskIds : Release(t)
  \/ \E t \in TaskIds : Done(t)

SpecNotify == InitNotify /\ [][NextNotify]_vars

\* ------------------------------------------------------------ package config
DefaultConcurrency == 5
DataDir == <<"/", "d", "a", "t", "a">>

\* New: the defaults
New ==
  [Concurrency |-> DefaultConcurrency, StateDir |-> DataDir,
   Backoff |-> DefaultBackoff]

\* json.Unmarshal into one field of the Config: a member of the right type
\* is stored, a missing or mistyped member leaves the field as it is
Decode(field, member) == IF member.set = "ok" THEN member.val ELSE field

\* LoadFromFile: an empty path, an unreadable file or a syntax error leave
\* the Config as it is; otherwise every well-typed member is stored
LoadFromFile(c, file) ==
  IF file.kind # "json" THEN c
  ELSE [Concurrency |-> Decode(c.Concurrency, file.concurrency),
        StateDir |-> Decode(c.StateDir, file.state_dir),
        Backoff |-> Decode(c.Backoff, file.backoff)]

\* the error LoadFromFile returns
LoadFromFileFails(file) ==
  \/ file.kind \in {"unreadable", "invalid"}
  \/ /\ file.kind = "json"
     /\ "mistyped" \in {file.concurrency.set, file.state_dir.set,
                        file.backoff.set}

\* strconv.Atoi: an optional sign, then decimal digits
Atoi(v) ==
  LET body == IF v # <<>> /\ Head(v) \in {"+", "-"} THEN Tail(v) ELSE v
      ok == body # <<>> /\ \A i \in 1..Len(body) : isDigit(body, i)
  IN  [ok |-> ok,
       val |-> IF ~ok THEN 0
               ELSE IF Head(v) = "-" THEN -atoi(body) ELSE atoi(body)]

\* time.ParseDuration, in milliseconds, for the forms "0", <digits>s and
\* <digits>ms; a number without a unit is an error
ParseDuration(v) ==
  LET n == Len(v)
      digitsTo(k) == k >= 1 /\ \A i \in 1..k : isDigit(v, i)
  IN  CASE v = <<"0">> -> [ok |-> TRUE, val |-> 0]
        [] n >= 3 /\ v[n] = "s" /\ v[n - 1] = "m" /\ digitsTo(n - 2) ->
             [ok |-> TRUE, val |-> atoi(SubSeq(v, 1, n - 2))]
        [] n >= 2 /\ v[n] = "s" /\ digitsTo(n - 1) ->
             [ok |-> TRUE, val |-> atoi(SubSeq(v, 1, n - 1)) * 1000]
        [] OTHER -> [ok |-> FALSE, val |-> 0]

\* setString: a non-empty value is stored with its outer whitespace removed
setString(field, v) == IF v # <<>> THEN TrimSpace(v) ELSE field

\* faulty variant: a value that is not a number sets the field to zero
setIntZeroOnError(field, v) == IF v # <<>> THEN Atoi(v).val ELSE field

\* setInt: a non-empty value that strconv.Atoi accepts is stored
setInt(field, v) == IF v # <<>> /\ Atoi(v).ok THEN Atoi(v).val ELSE field

\* setDuration: a non-empty value that time.ParseDuration accepts is stored
setDuration(field, v) ==
  IF v # <<>> /\ ParseDuration(v).ok THEN ParseDuration(v).val ELSE field

\* LoadFromEnv
LoadFromEnv(c, env) ==
  [Concurrency |-> setInt(c.Concurrency, env.CONCURRENCY),
   StateDir |-> setString(c.StateDir, env.STATE_DIR),
   Backoff |-> setDuration(c.Backoff, env.BACKOFF)]

\* the configuration files tried: none, an unreadable one, one with a
\* syntax error, and JSON objects that set any subset of the fields, one of
\* them possibly with a string where a number belongs
TmpDir == <<"/", "t">>
FileConcurrency ==
  { [set |-> "absent", val |-> 0], [set |-> "ok", val |-> 0],
    [set |-> "ok", val |-> 4], [set |-> "mistyped", val |-> 0] }
FileStateDir == { [set |-> "absent", val |-> <<>>], [set |-> "ok", val |-> TmpDir] }
FileBackoff == { [set |-> "absent", val |-> 0], [set |-> "ok", val |-> 500] }
ConfigFileSamples ==
  { [NoConfigFile EXCEPT !.kind = k] : k \in {"unset", "unreadable", "invalid"} }
  \cup [kind : {"json"}, concurrency : FileConcurrency,
        state_dir : FileStateDir, backoff : FileBackoff]

\* the values of the environment variables tried; <<>> is a variable that is
\* not set or empty
EnvConcurrency ==
  { <<>>, <<"0">>, <<"8">>, <<"-", "1">>, <<"x">>, <<" ", "8">> }
EnvStateDir == { <<>>, <<"/", "v">>, <<" ", "/", "v", " ">>, <<" ">> }
EnvBackoff == { <<>>, <<"1", "s">>, <<"5">>, <<"3", "m", "s">> }
EnvSamples ==
  [CONCURRENCY : EnvConcurrency, STATE_DIR : EnvStateDir, BACKOFF : EnvBackoff]

CfgVars ==
  << progVars, dnsCall, parseCall, storeCall, boot, sendCall, daysCall,
     keyCall >>

\* cfg := New(log), with a configuration file and an environment
CfgBegin ==
  /\ cfgCall.pc = "idle"
  /\ \E file \in ConfigFileSamples, env \in EnvSamples :
       cfgCall' = [NoCfgCall EXCEPT !.pc = "LoadFromFile", !.file = file,
                                    !.env = env, !.cfg = New]
  /\ UNCHANGED CfgVars

\* cfg.LoadFromFile(path)
CfgFile ==
  /\ cfgCall.pc = "LoadFromFile"
  /\ cfgCall' = [cfgCall EXCEPT !.cfg = LoadFromFile(@, cfgCall.file),
                                !.err = LoadFromFileFails(cfgCall.file),
                                !.pc = "LoadFromEnv"]
  /\ UNCHANGED CfgVars

\* cfg.LoadFromEnv()
CfgEnv ==
  /\ cfgCall.pc = "LoadFromEnv"
  /\ cfgCall' = [cfgCall EXCEPT !.cfg = LoadFromEnv(@, cfgCall.env),
                                !.pc = "loaded"]
  /\ UNCHANGED CfgVars

InitConfig == InitWith({<< DomA >>}) /\ concurrency = 1

NextConfig == CfgBegin \/ CfgFile \/ CfgEnv

SpecConfig == InitConfig /\ [][NextConfig]_vars

\* ------------------------------------------------- handleExpiry's daysLeft
\* the clock readings and expiration dates tried, in half days: dates up to
\* four days before and ten days after the reading, and dates further away
\* than the largest Duration
Readings == Epoch..(Epoch + 3)
NearOffsets == (-8)..20
FarOffsets ==
  { MaxDuration, MaxDuration + 1, -MaxDuration - 1, 300000, -300000 }

DaysVars ==
  << progVars, dnsCall, parseCall, storeCall, boot, cfgCall, sendCall,
     keyCall >>

\* handleExpiry is called with expDate when the clock reads t
DaysBegin ==
  /\ daysCall.pc = "idle"
  /\ \E t \in Readings, off \in NearOffsets \cup FarOffsets :
       daysCall' = [NoDaysCall EXCEPT !.pc = "called", !.t = t,
                                      !.expDate = t + off]
  /\ UNCHANGED DaysVars

\* daysLeft := int(time.Until(expDate).Hours() / 24)
DaysCompute ==
  /\ daysCall.pc = "called"
  /\ daysCall' = [daysCall EXCEPT
                    !.daysLeft = DaysLeft(daysCall.expDate, daysCall.t),
                    !.pc = "computed"]
  /\ UNCHANGED DaysVars

InitDays == InitWith({<< DomA >>}) /\ concurrency = 1

NextDays == DaysBegin \/ DaysCompute

SpecDays == InitDays /\ [][NextDays]_vars

\* ---------------------------------------------------- stateFilePath as a key
\* configured names, trimmed: with dots, with underscores, with both
KeyNames ==
  { DomA, DomB, <<"a", "_", "c">>, <<"b", "_", "c">>,
    <<"a", ".", "b", ".", "c">>, <<"a", "_", "b", ".", "c">>,
    <<"a", ".", "b", "_", "c">>, <<"a", "_", "b", "_", "c">> }

KeyVars ==
  << progVars, dnsCall, parseCall, storeCall, boot, cfgCall, sendCall,
     daysCall >>

\* two names are taken from the configuration
KeyBegin ==
  /\ keyCall.pc = "idle"
  /\ \E a \in KeyNames, b \in KeyNames :
       keyCall' = [NoKeyCall EXCEPT !.pc = "called", !.a = a, !.b = b]
  /\ UNCHANGED KeyVars

\* stateFilePath of each
KeyPaths ==
  /\ keyCall.pc = "called"
  /\ keyCall' = [keyCall EXCEPT !.pathA = stateFilePath(keyCall.a),
                                !.pathB = stateFilePath(keyCall.b),
                                !.pc = "mapped"]
  /\ UNCHANGED KeyVars

\* cleanupState with b as the only configured domain meets a's state file:
\* keep[strings.TrimSuffix(name, ".json")]
KeyKept ==
  /\ keyCall.pc = "mapped"
  /\ keyCall' = [keyCall EXCEPT
                   !.keptByB = /\ HasSuffix(keyCall.pathA, JsonExt)
                               /\ TrimSuffix(keyCall.pathA, JsonExt)
                                    \in keep(<< keyCall.b >>),
                   !.pc = "done"]
  /\ UNCHANGED KeyVars

InitKeys == InitWith({<< DomA >>}) /\ concurrency = 1

NextKeys == KeyBegin \/ KeyPaths \/ KeyKept

SpecKeys == InitKeys /\ [][NextKeys]_vars

\* ------------------------------------------------- a concurrency limit of 0
\* a list without a domain
BlankList == << Spaces >>

\* setInt stores any integer: the limit may be 0, which makes
\* make(chan struct{}, concurrency) a channel without a buffer
InitZero == InitOver(RunLists \cup {BlankList}, 0..MaxConcurrency)

\* main is blocked on the semaphore and no goroutine is left that could
\* receive from it: the runtime may end the process with "all goroutines
\* are asleep - deadlock!"
AllAsleep ==
  /\ mainPc = "acquire"
  /\ ~CanAcquire(sem, concurrency)
  /\ \A t \in TaskIds : tasks[t].pc \in {"idle", "done"}
  /\ mainPc' = "fatal"
  /\ UNCHANGED << domains, concurrency, now, run, files, idx, sem, wg, tasks,
                  sent, expirySent, writeFailed, otherParts >>

NextZero == NextPool \/ AllAsleep

SpecZero == InitZero /\ [][NextZero]_vars

\* ------------------------------------------------------------ interruptions
\* a name whose state file is a.c's
UnderA == <<"a", "_", "c">>

CrashLists == RunLists \cup {<< DomA, UnderA >>}
CrashNames == Names \cup {UnderA}

\* the process is ended between two steps (a signal, a power cut) and the
\* scheduler starts it again over the same state directory
Interrupt ==
  /\ mainPc # "returned"
  /\ Restart(MaxRuns)

\* the first invocation over an empty state directory; tasks run one at a
\* time
InitCrash ==
  /\ InitParts
  /\ dirEntries = <<>>
  /\ dirBefore = EmptyDir
  /\ domains \in CrashLists
  /\ concurrency = 1
  /\ now = Epoch
  /\ run = 1
  /\ files = EmptyDir
  /\ mainPc = "init"
  /\ idx = 1
  /\ sem = 0
  /\ wg = 0
  /\ tasks = [t \in TaskIds |-> IdleTask]
  /\ sent = [d \in CrashNames |-> [available |-> 0, expiry |-> 0]]
  /\ expirySent = {}
  /\ writeFailed = FALSE

NextCrash ==
  \/ CleanupEntry
  \/ StartMain
  \/ NextRunning
  \/ NextRun
  \/ Interrupt

SpecCrash == InitCrash /\ [][NextCrash]_vars

\* ================================================================ properties
Entries == 1..Len(domains)

\* the goroutines that are inside ProcessDomain
Running == { t \in TaskIds : tasks[t].pc \in InProcessDomain }

\* C1: at most `concurrency` domain tasks have started ProcessDomain and not
\* yet finished it, in every reachable state of ProcessAll.
C1_AtMostNRunning == Cardinality(Running) <= concurrency

\* the pool is full and the dispatch loop is blocked on the semaphore
C1_PoolSaturated ==
  /\ mainPc = "acquire"
  /\ concurrency = MaxConcurrency
  /\ Cardinality(Running) = concurrency

C4_AvailableNotifiedOnce ==
  \A t \in TaskIds :
    (tasks[t].dns = "available" /\ tasks[t].loaded.NotifiedAvailable) =>
      /\ tasks[t].sendsAvailable = 0
      /\ tasks[t].saves = 0
      /\ tasks[t].st = tasks[t].loaded
      /\ tasks[t].pc \in {"handleAvailable", "release"}

\* a later run has gone through handleAvailable with the flag already set
C4_AvailableAgain ==
  \E t \in TaskIds :
    /\ run > 1
    /\ tasks[t].pc = "release"
    /\ tasks[t].dns = "available"
    /\ tasks[t].loaded.NotifiedAvailable
    /\ sent[tasks[t].dom].available = 1

\* a well-formed DomainState record, or no file at all
WellFormed(content) == content.kind \in {"absent", "json"}

\* C5: over any number of runs on the same state directory, with every state
\* write succeeding and no state file deleted, each domain gets at most one
\* availability notification and at most one expiry warning, and every
\* state file is a well-formed DomainState record.
C5_NoDuplicateNotification ==
  ~writeFailed =>
    /\ \A d \in Names : sent[d].available <= 1 /\ sent[d].expiry <= 1
    /\ \A p \in Paths : WellFormed(files[p])

\* the step in which task t leaves pc `at`
Leaves(t, at) == tasks[t].pc = at /\ tasks'[t].pc # at

\* C6: handleExpiry sends an expiry warning, sets notifiedExpiry and saves
\* if and only if daysLeft <= threshold and notifiedExpiry was false;
\* otherwise it sends nothing and leaves the state and the files unchanged.
C6_ExpiryIff ==
  [][ \A t \in TaskIds :
        /\ Leaves(t, "handleExpiry") =>
             IF /\ DaysLeft(tasks[t].st.Expiration, now) <= ThresholdDays
                /\ ~tasks[t].st.NotifiedExpiry
             THEN /\ sent'[tasks[t].dom].expiry = sent[tasks[t].dom].expiry + 1
                  /\ sent'[tasks[t].dom].available = sent[tasks[t].dom].available
                  /\ tasks'[t].st = [tasks[t].st EXCEPT !.NotifiedExpiry = TRUE]
                  /\ tasks'[t].pc = "saveExpiry"
             ELSE /\ sent' = sent
                  /\ tasks'[t].st = tasks[t].st
                  /\ files' = files
                  /\ tasks'[t].pc = "release"
                  /\ tasks'[t].saves = tasks[t].saves
        /\ Leaves(t, "saveExpiry") =>
             /\ tasks'[t].saves = tasks[t].saves + 1
             /\ tasks'[t].pc = "release"
             /\ sent' = sent
             /\ \/ files' = [files EXCEPT ![stateFilePath(tasks[t].dom)] =
                                              Marshal(tasks[t].st)]
                \/ writeFailed'
    ]_vars

\* a warning was sent on the last half day inside the threshold and saved,
\* and an earlier run left a date outside the threshold unnotified
C6_ExpiryNotified ==
  \E t \in TaskIds :
    /\ tasks[t].pc = "release"
    /\ tasks[t].sendsExpiry = 1
    /\ tasks[t].saves > 0
    /\ DaysLeft(tasks[t].st.Expiration, now) = ThresholdDays
    /\ files[stateFilePath(tasks[t].dom)] = Marshal(tasks[t].st)
    /\ tasks[t].st.NotifiedExpiry

\* C7: after a definitive "available" answer with notifiedAvailable false,
\* ProcessDomain sends exactly one availability notification, sets the flag,
\* saves, and returns: no WHOIS lookup, no expiry warning, and expiration and
\* notifiedExpiry as loaded.
C7_AvailablePath ==
  \A t \in TaskIds :
    (tasks[t].dns = "available" /\ ~tasks[t].loaded.NotifiedAvailable) =>
      /\ tasks[t].pc \in {"handleAvailable", "saveAvailable", "release"}
      /\ ~tasks[t].whois
      /\ tasks[t].sendsExpiry = 0
      /\ tasks[t].st.Expiration = tasks[t].loaded.Expiration
      /\ tasks[t].st.NotifiedExpiry = tasks[t].loaded.NotifiedExpiry
      /\ tasks[t].pc = "handleAvailable" =>
           tasks[t].sendsAvailable = 0 /\ tasks[t].saves = 0
      /\ tasks[t].pc = "saveAvailable" =>
           /\ tasks[t].sendsAvailable = 1 /\ tasks[t].saves = 0
           /\ tasks[t].st.NotifiedAvailable
      /\ tasks[t].pc = "release" =>
           /\ tasks[t].sendsAvailable = 1 /\ tasks[t].saves = 1
           /\ tasks[t].st.NotifiedAvailable
           /\ ~writeFailed =>
                files[stateFilePath(tasks[t].dom)] = Marshal(tasks[t].st)

\* ProcessDomain has returned from the available path of a domain whose
\* expiration was known and whose expiry warning had been sent
C7_AvailableNotified ==
  \E t \in TaskIds :
    /\ tasks[t].pc = "release"
    /\ tasks[t].dns = "available"
    /\ ~tasks[t].loaded.NotifiedAvailable
    /\ tasks[t].loaded.Expiration # 0
    /\ tasks[t].loaded.NotifiedExpiry
    /\ sent[tasks[t].dom].available = 1

\* C8: after a DNS error ProcessDomain goes on to the cached-expiration
\* check with the state as loaded; an availability notification is only
\* ever sent, and notifiedAvailable only ever changed, by a task whose DNS
\* answer was a definitive "available".
C8_DnsErrorNotAvailable ==
  \A t \in TaskIds :
    /\ tasks[t].dns = "error" =>
         /\ tasks[t].pc = "checkExpiration"
         /\ tasks[t].st = tasks[t].loaded
         /\ tasks[t].saves = 0
    /\ tasks[t].dns # "available" =>
         /\ tasks[t].sendsAvailable = 0
         /\ tasks[t].st.NotifiedAvailable = tasks[t].loaded.NotifiedAvailable

\* a DNS error for a domain whose availability was never notified
C8_DnsErrorSeen ==
  \E t \in TaskIds :
    /\ tasks[t].pc = "checkExpiration"
    /\ tasks[t].dns = "error"
    /\ ~tasks[t].loaded.NotifiedAvailable

\* C9: a state file with notifiedExpiry = true means that an expiry warning
\* has been sent for the expiration value stored in that file.
C9_FlagMeansSentForCurrent ==
  \A d \in Names :
    LET content == files[stateFilePath(d)]
    IN  (content.kind = "json" /\ content.notified_expiry) =>
          <<d, content.expiration>> \in expirySent

\* C10: a flag that is true in a state file is never written back as false
\* while the file exists.
C10_FlagsMonotone ==
  [][ \A p \in Paths :
        (files[p].kind = "json" /\ files'[p].kind = "json") =>
          /\ files[p].notified_expiry => files'[p].notified_expiry
          /\ files[p].notified_available => files'[p].notified_available
    ]_vars

\* C11: whenever a run's DNS probe answers "available" and the domain's
\* previous error-free answer, in an earlier run, was "registered", that
\* run sends an availability notification: for every such transition, not
\* only the first.
C11_EveryTransitionNotified ==
  \A t \in TaskIds :
    ( /\ tasks[t].pc = "release"
      /\ tasks[t].dns = "available"
      /\ lastProbe[tasks[t].dom].prev = "registered" ) =>
      tasks[t].sendsAvailable = 1

\* the step removes file p
Deletes(p) == files[p].kind # "absent" /\ files'[p].kind = "absent"

\* C12: no file is ever deleted whose content is not a DomainState record
\* with the three fields expiration, notified_expiry and notified_available,
\* whatever its name: malformed JSON, non-JSON content and JSON that is not
\* such a record all stay.
C12_OnlyStateRecordsDeleted ==
  [][ \A p \in DirNames : Deletes(p) => files[p].kind = "json" ]_vars

\* the keys of the current domains
DomainKeys(doms) ==
  { ReplaceAll(TrimSpace(doms[i]), ".", "_") :
      i \in { j \in 1..Len(doms) : TrimSpace(doms[j]) # <<>> } }

\* a well-formed DomainState file whose key is not that of a current domain
IsStale(dir, p, doms) ==
  /\ dir[p].kind = "json"
  /\ HasSuffix(p, JsonExt)
  /\ TrimSuffix(p, JsonExt) \notin DomainKeys(doms)

\* C13: when cleanupState has returned, the files it deleted are exactly the
\* well-formed DomainState files whose key (the filename without .json) is
\* not the key of a current domain; every other file is as it was.
C13_CleanupExact ==
  (mainPc = "init" /\ dirEntries = <<>>) =>
    \A p \in DirNames :
      files[p] = IF IsStale(dirBefore, p, domains) THEN NoFile ELSE dirBefore[p]

\* C14: while cleanupState has entries left to visit no domain task exists,
\* every deletion happens before main starts, and within an invocation the
\* listing only shrinks: cleanup runs once, and to completion, before any
\* state load or write of a domain task.
C14_CleanupBeforeTasks ==
  /\ [](dirEntries # <<>> =>
          mainPc = "init" /\ \A t \in TaskIds : tasks[t] = IdleTask)
  /\ [][ /\ (\E p \in DirNames : Deletes(p)) =>
             /\ mainPc = "init" /\ mainPc' = "init"
             /\ \A t \in TaskIds : tasks[t] = IdleTask /\ tasks'[t] = IdleTask
         /\ dirEntries' # dirEntries =>
             dirEntries' = Tail(dirEntries) \/ run' = run + 1
         /\ (mainPc # "init" /\ mainPc' = "init") => run' = run + 1
       ]_vars

\* cleanupState has returned after deleting the stale state file and
\* keeping the current domain's, and main has not started yet
C14_StaleDeleted ==
  /\ mainPc = "init"
  /\ dirEntries = <<>>
  /\ dirBefore[StaleJson] = SavedState
  /\ files[StaleJson] = NoFile
  /\ domains = <<DomA>>
  /\ files[stateFilePath(DomA)] = SavedState
  /\ \A t \in TaskIds : tasks[t] = IdleTask

\* C15: no two tasks are inside ProcessDomain at the same time with the same
\* state file: each state file is loaded and saved by one task only.
C15_OneTaskPerFile ==
  \A t1, t2 \in TaskIds :
    ( /\ t1 # t2
      /\ tasks[t1].pc \in InProcessDomain
      /\ tasks[t2].pc \in InProcessDomain ) =>
      stateFilePath(tasks[t1].dom) # stateFilePath(tasks[t2].dom)

\* the transport calls of the WHOIS call in progress
TransportCalls == Len(whoisCall.outcomes)

AllErrors(seq) == \A k \in 1..Len(seq) : seq[k] = "error"

\* every transport call but the last one failed
OnlyLastMaySucceed ==
  AllErrors(SubSeq(whoisCall.outcomes, 1, TransportCalls - 1))

\* C16: QueryWithRetries makes at most `retries` transport calls; it returns
\* the text of the first call that succeeds and makes no call after it; it
\* reports failure (the empty string) after exactly `retries` calls, all
\* failed; and once begun it always returns.
C16_BoundedRetries ==
  /\ []( /\ TransportCalls <= retries
         /\ OnlyLastMaySucceed
         /\ whoisCall.pc \in {"parse", "returned"} =>
              IF whoisCall.raw = "empty"
              THEN TransportCalls = retries /\ AllErrors(whoisCall.outcomes)
              ELSE /\ TransportCalls >= 1
                   /\ whoisCall.outcomes[TransportCalls] # "error"
                   /\ whoisCall.raw = whoisCall.outcomes[TransportCalls] )
  /\ (whoisCall.pc = "loop") ~> (whoisCall.pc = "parse")

\* the third and last permitted attempt succeeded after two failures
C16_ThirdAttemptSucceeds ==
  /\ whoisCall.pc = "parse"
  /\ retries = 3
  /\ whoisCall.outcomes = <<"error", "error", "dated">>
  /\ whoisCall.raw = "dated"

RECURSIVE Pow2(_)
Pow2(k) == IF k = 0 THEN 1 ELSE 2 * Pow2(k - 1)

\* the wait is the term plus a jitter within [0, 1s)
JitteredFrom(wait, term) == (wait - term) \in 0..999

\* C17 as stated: no wait precedes attempt 0, and the wait that precedes
\* attempt i > 0 is backoff * 2^i plus a jitter within [0, 1s).
C17_WaitBeforeAttempt ==
  /\ Len(whoisCall.slept) <= TransportCalls
  /\ \A k \in 1..Len(whoisCall.slept) :
       k < TransportCalls =>
         JitteredFrom(whoisCall.slept[k], backoff * Pow2(k))

\* C17, amended: no wait precedes attempt 0, and the wait that precedes
\* attempt i > 0 is backoff * 2^(i-1) plus a jitter within [0, 1s).
C17_WaitBeforeAttemptAmended ==
  /\ Len(whoisCall.slept) <= TransportCalls
  /\ whoisCall.pc = "loop" => Len(whoisCall.slept) = TransportCalls
  /\ \A k \in 1..Len(whoisCall.slept) :
       JitteredFrom(whoisCall.slept[k], backoff * Pow2(k - 1))

\* attempt 2 was made after waits of 2s and 4.999s
C17_TwoWaits ==
  /\ backoff = DefaultBackoff
  /\ TransportCalls = 3
  /\ whoisCall.slept = <<DefaultBackoff, 2 * DefaultBackoff + 999>>

\* the order in which ProcessDomain reaches its operations
Rank(pc) ==
  CASE pc = "idle"            -> 0
    [] pc = "spawned"         -> 1
    [] pc = "dns"             -> 2
    [] pc = "handleAvailable" -> 3
    [] pc = "saveAvailable"   -> 4
    [] pc = "checkExpiration" -> 5
    [] pc = "whois"           -> 6
    [] pc = "saveExpiration"  -> 7
    [] pc = "handleExpiry"    -> 8
    [] pc = "saveExpiry"      -> 9
    [] pc = "release"         -> 10
    [] pc = "released"        -> 11
    [] pc = "done"            -> 12

\* C18: a transport call is only ever made when every earlier call of the
\* same lookup failed, so text that does not parse ends GetExpirationDate
\* with an error and no further call; and a task never goes back to an
\* operation it has left: one load, one DNS probe, one Save per place and
\* at most one notification of each kind, whatever their outcome.
C18_OnlyTransportRetried ==
  /\ []( /\ whoisCall.err \in {"parse", "expiration"} =>
              /\ OnlyLastMaySucceed
              /\ whoisCall.outcomes[TransportCalls] \in {"garbled", "nodate"}
         /\ \A t \in TaskIds :
              /\ tasks[t].calls <= 1
              /\ tasks[t].saves <= 2
              /\ tasks[t].sendsAvailable <= 1
              /\ tasks[t].sendsExpiry <= 1 )
  /\ [][ /\ Len(whoisCall'.outcomes) > TransportCalls =>
             AllErrors(whoisCall.outcomes)
         /\ \A t \in TaskIds :
              tasks'[t].pc # tasks[t].pc => Rank(tasks'[t].pc) > Rank(tasks[t].pc)
       ]_vars

\* the second call's text was rejected by the WHOIS parser and
\* GetExpirationDate returned with an attempt left
C18_ParseErrorNotRetried ==
  /\ whoisCall.pc = "returned"
  /\ whoisCall.err = "parse"
  /\ whoisCall.outcomes = <<"error", "garbled">>
  /\ retries = 3

\* C19: when the WHOIS lookup fails, for whichever of the three reasons,
\* ProcessDomain returns at once: the task has made no Save and sent no
\* notification, its state is as loaded, and the step changes no file.
C19_WhoisFailureAbandons ==
  /\ [](\A t \in TaskIds :
          tasks[t].whoisErr # "none" =>
            /\ tasks[t].pc = "release"
            /\ tasks[t].saves = 0
            /\ tasks[t].sendsAvailable = 0
            /\ tasks[t].sendsExpiry = 0
            /\ tasks[t].st = tasks[t].loaded)
  /\ [][ \A t \in TaskIds :
           /\ (Leaves(t, "whois") /\ tasks'[t].whoisErr # "none") =>
                files' = files /\ sent' = sent /\ tasks'[t].pc = "release"
           /\ (Leaves(t, "release") /\ tasks[t].whoisErr # "none") =>
                files' = files /\ sent' = sent
       ]_vars

\* a later run found the cached expiration passed, the lookup's expiration
\* string did not parse, and the state file is as it was loaded
C19_LookupFailed ==
  \E t \in TaskIds :
    /\ run > 1
    /\ tasks[t].pc = "release"
    /\ tasks[t].whoisErr = "expiration"
    /\ tasks[t].loaded.Expiration # 0
    /\ tasks[t].loaded.NotifiedExpiry
    /\ files[stateFilePath(tasks[t].dom)] = Marshal(tasks[t].loaded)

\* C20: when the DNS probe did not answer "available" and the loaded state
\* has a non-zero expiration strictly after the current time, ProcessDomain
\* goes to handleExpiry without a WHOIS lookup and without a Save, and
\* handleExpiry decides on the loaded expiration as it is.
C20_CachedExpirationUsed ==
  /\ [][ \A t \in TaskIds :
           /\ ( /\ Leaves(t, "checkExpiration")
                /\ tasks[t].loaded.Expiration # 0
                /\ tasks[t].loaded.Expiration > now ) =>
                /\ tasks'[t].pc = "handleExpiry"
                /\ ~tasks'[t].whois
                /\ tasks'[t].st = tasks[t].loaded
                /\ tasks'[t].saves = 0
                /\ files' = files
           /\ (Leaves(t, "handleExpiry") /\ ~tasks[t].whois) =>
                ( tasks'[t].sendsExpiry = 1 <=>
                    /\ DaysLeft(tasks[t].loaded.Expiration, now) <= ThresholdDays
                    /\ ~tasks[t].loaded.NotifiedExpiry )
       ]_vars
  /\ [](\A t \in TaskIds :
          (tasks[t].pc \in {"handleExpiry", "saveExpiry"} /\ ~tasks[t].whois) =>
            /\ tasks[t].st.Expiration = tasks[t].loaded.Expiration
            /\ tasks[t].loaded.Expiration # 0)

\* a later run used the expiration an earlier run had saved, by then within
\* the threshold, and sent the warning without a lookup
C20_CachedWarning ==
  \E t \in TaskIds :
    /\ run > 1
    /\ tasks[t].pc = "saveExpiry"
    /\ ~tasks[t].whois
    /\ tasks[t].sendsExpiry = 1
    /\ tasks[t].loaded.Expiration > now
    /\ tasks[t].st.Expiration = tasks[t].loaded.Expiration

\* C21: a domain's stored expiration, once non-zero, changes only in a Save
\* of a task whose WHOIS lookup succeeded in this run; the available path,
\* the cached path, a failed lookup and the expiry notification leave the
\* stored value as it is.
C21_ExpirationOnlyFromWhois ==
  [][ \A p \in Paths :
        ( /\ files[p].kind = "json"
          /\ files[p].expiration # 0
          /\ files'[p].kind = "json"
          /\ files'[p].expiration # files[p].expiration ) =>
          \E t \in TaskIds :
            /\ stateFilePath(tasks[t].dom) = p
            /\ tasks[t].pc \in {"saveExpiration", "saveExpiry"}
            /\ tasks[t].whois
            /\ tasks[t].whoisErr = "none"
    ]_vars

\* C22: after a successful WHOIS lookup ProcessDomain calls Save with the
\* new expiration before handleExpiry runs: the step that leaves the lookup's
\* Save goes to handleExpiry and, unless a write has failed, leaves the new
\* expiration in the domain's file; a task that is in handleExpiry after a
\* lookup has made that Save.
C22_SavedBeforeExpiryLogic ==
  /\ [] \A t \in TaskIds :
          ( /\ tasks[t].pc \in {"handleExpiry", "saveExpiry"}
            /\ tasks[t].whois ) =>
            /\ tasks[t].whoisErr = "none"
            /\ tasks[t].saves >= 1
            /\ tasks[t].sendsExpiry = 0 \/ tasks[t].pc = "saveExpiry"
  /\ [][ \A t \in TaskIds :
           ( /\ tasks[t].pc = "saveExpiration"
             /\ tasks'[t].pc # "saveExpiration" ) =>
             /\ tasks'[t].pc = "handleExpiry"
             /\ tasks'[t].sendsExpiry = 0
             /\ \/ writeFailed'
                \/ LET content == files'[stateFilePath(tasks[t].dom)]
                   IN  /\ content.kind = "json"
                       /\ content.expiration = tasks[t].st.Expiration
       ]_vars

\* a lookup gave a date far from the threshold: the date is in the file and
\* no warning was sent
C22_SavedWithoutWarning ==
  \E t \in TaskIds :
    /\ tasks[t].pc = "release"
    /\ tasks[t].whois
    /\ tasks[t].whoisErr = "none"
    /\ tasks[t].saves = 1
    /\ tasks[t].sendsExpiry = 0
    /\ tasks[t].st.Expiration # 0
    /\ files[stateFilePath(tasks[t].dom)].kind = "json"
    /\ files[stateFilePath(tasks[t].dom)].expiration = tasks[t].st.Expiration

\* C23: the probe's result is decided by the reply alone: a reply of fewer
\* than 12 bytes gives an error; a longer one gives no error and "available"
\* exactly when bytes 6-7, the big-endian answer count, are zero, whatever
\* the other bytes are; and every failure (resolver configuration, connect,
\* send, receive or timeout, short reply) returns an error with
\* availability false.
C23_DecidedByAnswerCount ==
  dnsCall.pc = "returned" =>
    LET r == dnsCall.response
    IN  /\ dnsCall.err # "none" => ~dnsCall.available
        /\ dnsCall.err \in {"config", "connect", "send", "receive"} => r = <<>>
        /\ dnsCall.err = "parse" => Len(r) < 12
        /\ dnsCall.err = "none" =>
             /\ Len(r) >= 12
             /\ dnsCall.available <=> (r[7] = 0 /\ r[8] = 0)

\* a reply with another ID than the query's, RCODE 0, 256 answers and a
\* body: the domain is reported as not available
C23_ManyAnswers ==
  /\ dnsCall.pc = "returned"
  /\ dnsCall.err = "none"
  /\ ~dnsCall.available
  /\ Len(dnsCall.response) > 12
  /\ dnsCall.response[2] # dnsCall.query[2]
  /\ dnsCall.response[7] = 1
  /\ dnsCall.response[8] = 0

\* the number of characters of d from position i up to the next dot
RunLen(d, i) ==
  LET stops == { k \in i..(Len(d) + 1) : k = Len(d) + 1 \/ d[k] = "." }
  IN  (CHOOSE k \in stops : \A m \in stops : k <= m) - i

\* q is the header, then d with every label prefixed by its length, a zero
\* byte, the type in two bytes, high byte first, and class 1
QueryLayout(q, d, typ) ==
  /\ Len(q) = Len(d) + 18
  /\ SubSeq(q, 1, 12) = << 0, 1, 1, 0, 0, 1, 0, 0, 0, 0, 0, 0 >>
  /\ q[13] = RunLen(d, 1)
  /\ \A j \in 1..Len(d) :
       q[13 + j] = IF d[j] = "." THEN RunLen(d, j + 1) ELSE ByteOf(d[j])
  /\ q[Len(d) + 14] = 0
  /\ q[Len(d) + 15] * 256 + q[Len(d) + 16] = typ
  /\ q[Len(d) + 15] \in 0..255
  /\ q[Len(d) + 16] \in 0..255
  /\ q[Len(d) + 17] = 0
  /\ q[Len(d) + 18] = 1

\* createDNSQuery has returned
QueryBuilt == dnsCall.pc \notin {"idle", "nameserver", "query"}

Num2(s, i) == DigitVal(s[i]) * 10 + DigitVal(s[i + 1])

\* s starts with a calendar date YYYY-MM-DD
StartsWithDate(s) ==
  /\ Len(s) >= 10
  /\ \A i \in {1, 2, 3, 4, 6, 7, 9, 10} : isDigit(s, i)
  /\ s[5] = "-" /\ s[8] = "-"
  /\ Num2(s, 6) \in 1..12
  /\ Num2(s, 9) >= 1
  /\ Num2(s, 9) <= daysIn(Num2(s, 6), Num2(s, 1) * 100 + Num2(s, 3))

MidnightOf(s) ==
  DaysSince2000(Num2(s, 1) * 100 + Num2(s, 3), Num2(s, 6), Num2(s, 9)) * 86400

\* the digits of the fraction of a second in s, with its dot; 0 without one
FractionLen(s) ==
  IF Len(s) >= 20 /\ s[20] = "." THEN 1 + DigitRun(Rest(s, 20)) ELSE 0

\* z is "Z" or a numeric offset +hh:mm or -hh:mm
IsZone(z) ==
  \/ z = <<"Z">>
  \/ /\ Len(z) = 6
     /\ z[1] \in {"+", "-"}
     /\ \A i \in {2, 3, 5, 6} : isDigit(z, i)
     /\ z[4] = ":"
     /\ Num2(z, 2) <= 23
     /\ Num2(z, 5) <= 59

\* s is a timestamp of RFC 3339: date, "T", hh:mm:ss, an optional fraction,
\* and a zone (leap seconds left aside)
StrictRFC3339(s) ==
  /\ Len(s) >= 20
  /\ StartsWithDate(s)
  /\ s[11] = "T"
  /\ \A i \in {12, 13, 15, 16, 18, 19} : isDigit(s, i)
  /\ s[14] = ":" /\ s[17] = ":"
  /\ Num2(s, 12) <= 23 /\ Num2(s, 15) <= 59 /\ Num2(s, 18) <= 59
  /\ FractionLen(s) # 1
  /\ IsZone(Rest(s, 19 + FractionLen(s)))

\* the instant an RFC 3339 timestamp names
InstantOf(s) ==
  LET z   == Rest(s, 19 + FractionLen(s))
      off == IF z = <<"Z">> THEN 0
             ELSE (IF z[1] = "-" THEN 0 - 1 ELSE 1)
                    * (Num2(z, 2) * 3600 + Num2(z, 5) * 60)
      n   == FractionLen(s) - 1
  IN  [err  |-> FALSE,
       sec  |-> MidnightOf(s) + Num2(s, 12) * 3600 + Num2(s, 15) * 60
                  + Num2(s, 18) - off,
       nsec |-> IF n < 1 THEN 0
                ELSE atoi(SubSeq(s, 21, 20 + n)) * Pow10(9 - n)]

\* C25: ParseExpiration tries RFC3339 first and the date-only format second:
\* an RFC3339 string yields exactly that instant, a bare YYYY-MM-DD date
\* yields midnight UTC of that date, and every other string yields an error.
C25_ParseExpiration ==
  parseCall.pc = "returned" =>
    IF StrictRFC3339(parseCall.raw)
    THEN parseCall.t = InstantOf(parseCall.raw) /\ parseCall.by = "rfc3339"
    ELSE IF StartsWithDate(parseCall.raw) /\ Len(parseCall.raw) = 10
         THEN /\ parseCall.t = [err |-> FALSE,
                                sec |-> MidnightOf(parseCall.raw), nsec |-> 0]
              /\ parseCall.by = "dateonly"
         ELSE parseCall.t.err

\* the domain with every "." replaced by "_", then ".json"
FileOf(d) ==
  [i \in 1..Len(d) |-> IF d[i] = "." THEN "_" ELSE d[i]]
    \o <<".", "j", "s", "o", "n">>

C27_LoadZeroOnFailure ==
  [][ \A t \in TaskIds :
        (tasks[t].pc = "spawned" /\ tasks'[t].pc # "spawned") =>
          LET content == files[stateFilePath(tasks[t].dom)]
          IN  /\ tasks'[t].pc = "dns"
              /\ tasks'[t].st = tasks'[t].loaded
              /\ \/ tasks'[t].loaded = ZeroState
                 \/ /\ content.kind = "json"
                    /\ tasks'[t].loaded.Expiration = content.expiration
                    /\ tasks'[t].loaded.NotifiedExpiry = content.notified_expiry
                    /\ tasks'[t].loaded.NotifiedAvailable
                         = content.notified_available
    ]_vars

\* the state file of task t's domain holds a date for which a task that had
\* loaded it would send the expiry warning now
WarningDue(t) ==
  LET content == files[stateFilePath(tasks[t].dom)]
      st      == Unmarshal(content)
  IN  /\ content.kind = "json"
      /\ hasValidExpiration(st, now)
      /\ ShouldNotifyExpiry(DaysLeft(st.Expiration, now), ThresholdDays, st)

\* C28: a failed read of the state file loses no notification: a task that
\* got the zero state although the file holds a date whose warning is due,
\* and whose probe did not find the domain available, still sends the
\* warning before it ends, as it would have with the file's state.
C28_ReadFailureLosesNothing ==
  \A t \in TaskIds :
    ( /\ tasks[t].pc = "release"
      /\ tasks[t].loaded = ZeroState
      /\ tasks[t].dns # "available"
      /\ WarningDue(t) ) =>
      tasks[t].sendsExpiry >= 1

\* C29: a failed state write is not fatal and costs at most a repeated
\* notification: the Save that follows a notification lets the task go on
\* to its end, and it leaves in the file either the new state or, when the
\* write fails, the content the file had before.
C29_FailedWriteKeepsFile ==
  [][ \A t \in TaskIds :
        ( /\ tasks[t].pc \in {"saveAvailable", "saveExpiry"}
          /\ tasks'[t].pc # tasks[t].pc ) =>
          LET p == stateFilePath(tasks[t].dom)
          IN  /\ tasks'[t].pc = "release"
              /\ \/ files'[p] = Marshal(tasks[t].st)
                 \/ files'[p] = files[p]
    ]_vars

\* a DNS, WHOIS, parse or persistence failure has happened in some task
SomeTaskFailed ==
  \/ writeFailed
  \/ \E t \in TaskIds : tasks[t].dns = "error" \/ tasks[t].whoisErr # "none"

\* ProcessAll has returned and every non-blank entry's task has finished
AllProcessed ==
  /\ mainPc = "returned"
  /\ \A i \in Entries :
       ~IsBlankEntry(domains[i]) => tasks[i].pc = "done" /\ tasks[i].calls = 1

\* C30: failures are contained per domain: after a DNS, WHOIS, parse or
\* persistence failure in one task every entry, dispatched or not, is still
\* processed to completion and ProcessAll returns only then; and no step of
\* one task changes another task.
C30_FailuresContained ==
  /\ SomeTaskFailed ~> AllProcessed
  /\ [] (mainPc = "returned" => AllProcessed)
  /\ [][ \A t, u \in TaskIds :
           (t # u /\ tasks'[t] # tasks[t]) => tasks'[u] = tasks[u] ]_vars

\* the WHOIS lookup of a.c has failed while the task of b.c, running beside
\* it, has sent its expiry warning
C30_SiblingUnaffected ==
  /\ tasks[1].pc = "release"
  /\ tasks[1].whoisErr = "transport"
  /\ tasks[3].pc = "release"
  /\ tasks[3].dom = DomB
  /\ tasks[3].sendsExpiry = 1

\* C31: the only error that ends the process is the failure to create the
\* state directory at startup; after any other error the process goes on.
C31_OnlyStateDirAborts == boot.pc = "exited" => boot.exit = "state directory"

\* the flag that goes with a kind of notification, in a DomainState
FlagOf(st, kind) ==
  IF kind = "available" THEN st.NotifiedAvailable ELSE st.NotifiedExpiry

\* Send has come to its end, one way or another, and has returned
C32_SendReturns ==
  sendCall.outcome # "none" => sendCall.pc \in {"returned", "idle"}

\* a task that has sent and saved, with no write failed, finds its flag in
\* its state file
C32_FlagPersisted ==
  \A t \in TaskIds :
    (tasks[t].pc = "release" /\ ~writeFailed) =>
      LET f == files[stateFilePath(tasks[t].dom)]
      IN  /\ tasks[t].sendsAvailable > 0 =>
               f.kind = "json" /\ f.notified_available
          /\ tasks[t].sendsExpiry > 0 =>
               f.kind = "json" /\ f.notified_expiry

\* when Send returns to the task, the task sets the flag and goes on to Save
C32_FlagSetOnReturn ==
  \A t \in TaskIds :
    (sendCall.pc = "returned" /\ sendCall.task = t /\ sendCall'.pc = "idle") =>
      /\ FlagOf(tasks'[t].st, sendCall.kind)
      /\ tasks'[t].pc \in {"saveAvailable", "saveExpiry"}
      /\ sendCall.outcome \in {"skipped", "failed", "delivered"}

\* C32: Send returns normally both when SMTP is not configured and when the
\* delivery fails, and the caller then sets and persists the notification
\* flag whether or not the message was delivered.
C32_NotifierFailuresContained ==
  /\ [](C32_SendReturns /\ C32_FlagPersisted)
  /\ [][C32_FlagSetOnReturn]_vars

\* the delivery failed, nothing was delivered, and the flag is in the file
C32_FailedDeliveryFlagged ==
  /\ sendCall.outcome = "failed"
  /\ sendCall.delivered = 0
  /\ \E t \in TaskIds :
       /\ tasks[t].pc = "release"
       /\ tasks[t].sendsExpiry = 1
       /\ files[stateFilePath(tasks[t].dom)].kind = "json"
       /\ files[stateFilePath(tasks[t].dom)].notified_expiry

\* what the file gives for a field: the member's value if the file is a JSON
\* object that sets it, else the value before
FromFile(file, member, before) ==
  IF file.kind = "json" /\ member.set = "ok" THEN member.val ELSE before

\* a text that is a decimal number, with or without a sign
IsInt(v) == Atoi(v).ok

\* C33 as stated: after New, LoadFromFile and LoadFromEnv each field has the
\* environment value if the variable is set to a valid value, else the file
\* value if the file sets it, else the default; string fields take the
\* variable's value as it is.
C33_PriorityVerbatim ==
  cfgCall.pc = "loaded" =>
    LET file == cfgCall.file
        env == cfgCall.env
    IN  /\ cfgCall.cfg.Concurrency =
             IF IsInt(env.CONCURRENCY) THEN Atoi(env.CONCURRENCY).val
             ELSE FromFile(file, file.concurrency, DefaultConcurrency)
        /\ cfgCall.cfg.Backoff =
             IF ParseDuration(env.BACKOFF).ok THEN ParseDuration(env.BACKOFF).val
             ELSE FromFile(file, file.backoff, DefaultBackoff)
        /\ cfgCall.cfg.StateDir =
             IF env.STATE_DIR # <<>> THEN env.STATE_DIR
             ELSE FromFile(file, file.state_dir, DataDir)

\* C33: the same order of priority, with a string field taking the
\* variable's value without its leading and trailing whitespace, so that a
\* value of whitespace only sets the field to the empty string.
C33_PriorityTrimmed ==
  cfgCall.pc = "loaded" =>
    LET file == cfgCall.file
        env == cfgCall.env
    IN  /\ cfgCall.cfg.Concurrency =
             IF IsInt(env.CONCURRENCY) THEN Atoi(env.CONCURRENCY).val
             ELSE FromFile(file, file.concurrency, DefaultConcurrency)
        /\ cfgCall.cfg.Backoff =
             IF ParseDuration(env.BACKOFF).ok THEN ParseDuration(env.BACKOFF).val
             ELSE FromFile(file, file.backoff, DefaultBackoff)
        /\ cfgCall.cfg.StateDir =
             IF env.STATE_DIR # <<>> THEN TrimSpace(env.STATE_DIR)
             ELSE FromFile(file, file.state_dir, DataDir)

\* the file sets all three fields; the environment overrides the number with
\* 0, gives a state directory of whitespace only and an unparseable backoff
C33_EnvOverFile ==
  /\ cfgCall.pc = "loaded"
  /\ cfgCall.file.kind = "json"
  /\ cfgCall.file.concurrency = [set |-> "ok", val |-> 4]
  /\ cfgCall.file.state_dir.set = "ok"
  /\ cfgCall.file.backoff.set = "ok"
  /\ cfgCall.env.CONCURRENCY = <<"0">>
  /\ cfgCall.env.STATE_DIR = <<" ">>
  /\ cfgCall.env.BACKOFF = <<"5">>
  /\ cfgCall.cfg = [Concurrency |-> 0, StateDir |-> <<>>, Backoff |-> 500]

\* C34: after a DNS probe that returned an error, what ProcessDomain does
\* next differs from what it does after an error-free "not available"
\* answer on the same state.
C34_ErrorIsNotRegistered ==
  \A t \in TaskIds :
    (tasks[t].pc = "checkExpiration" /\ tasks[t].dns = "error") =>
      AfterProbe(tasks[t], now) #
        AfterProbe([tasks[t] EXCEPT !.dns = "registered"], now)

\* C35: the days-until-expiry value equals floor((expiration - now) / 24h)
\* for every expiration and current time, expirations in the past and
\* differences that are not a whole number of days included.
C35_DaysLeftIsFloor ==
  daysCall.pc = "computed" =>
    daysCall.daysLeft = (daysCall.expDate - daysCall.t) \div HalfDaysPerDay

\* C36: two different trimmed domain names never map to the same state
\* file path, and cleanup's keep-set key of a domain matches only that
\* domain's own file.
C36_KeysInjective ==
  (keyCall.pc = "done" /\ keyCall.a # keyCall.b) =>
    /\ keyCall.pathA # keyCall.pathB
    /\ ~keyCall.keptByB

\* until ProcessAll has returned, the dispatch loop or some goroutine can
\* take a step
C37_NoDeadlock == mainPc # "returned" => ENABLED NextPool

\* when ProcessAll has returned, the semaphore is empty and the WaitGroup
\* counter is zero
C37_SlotsReleased == mainPc = "returned" => sem = 0 /\ wg = 0

\* C37: for every concurrency limit N >= 1 and every finite domain list, if
\* each domain task terminates then ProcessAll eventually returns, with all
\* semaphore slots released; slot acquisition and slot release never
\* deadlock.
C37_ProcessAllReturns ==
  /\ [](C37_NoDeadlock /\ C37_SlotsReleased)
  /\ <>(mainPc = "returned")

\* ProcessAll has returned from a run of two tasks over a single slot
C37_ReturnedOverOneSlot ==
  /\ mainPc = "returned"
  /\ concurrency = 1
  /\ sem = 0
  /\ tasks[1].pc = "done"
  /\ tasks[3].pc = "done"

\* C38: with a concurrency limit of 0 and at least one non-blank domain,
\* ProcessAll never returns and no domain task is ever started: the dispatch
\* loop is stopped at the first acquisition of a slot.
C38_ZeroLimitStartsNothing ==
  (concurrency = 0 /\ \E i \in Entries : ~IsBlankEntry(domains[i])) =>
    /\ mainPc # "returned"
    /\ sem = 0
    /\ \A t \in TaskIds : tasks[t].pc = "idle"
    /\ \A i \in 1..(idx - 1) : IsBlankEntry(domains[i])
    /\ files = EmptyDir

\* the loop has counted its first task in and waits for a slot that the
\* channel does not have
C38_BlockedOnFirstSlot ==
  /\ concurrency = 0
  /\ mainPc = "acquire"
  /\ wg = 1
  /\ ~ENABLED NextPool

\* the configured domains
Configured == { TrimSpace(domains[i]) : i \in Entries } \ { <<>> }

\* C39: a state file with notifiedAvailable or notifiedExpiry set, written
\* by this program, implies that the Notifier was invoked earlier for that
\* domain and that kind of notification, in every execution, interrupted
\* ones included.
C39_NotifiedBeforePersisted ==
  \A d \in Configured :
    LET f == files[stateFilePath(d)]
    IN  f.kind = "json" =>
          /\ f.notified_available => sent[d].available >= 1
          /\ f.notified_expiry => sent[d].expiry >= 1

============================================================================
